---- MODULE Spec2Model ----
(***************************************************************************)
(* RecruTakeHR: the interview-kit generation flows (src/ai/flows) and the  *)
(* page that calls them (src/app/page.tsx).                                *)
(*                                                                         *)
(* A flow awaits the model call, rejects when the call gave no output,     *)
(* otherwise fills defaults into the raw output ("sanitizing"), repairs    *)
(* the rubric weights ("normalizing") and resolves with the kit.  The      *)
(* repository holds several versions of each flow; each version is an      *)
(* action of its own here.                                                 *)
(*                                                                         *)
(* JavaScript values.  A string-valued field holds a string, UNDEFINED     *)
(* when the property is absent.  A number-valued field holds a record      *)
(* [t, v]: t = "number" with v the value, or t = "NaN", "undefined",       *)
(* "string" with v = 0.  Weights are counted in units of 1/ONE, so that    *)
(* 0.2 is Num(2000) and 0.01 is Num(100); the arithmetic of the rubric     *)
(* repair is done exactly on these integers.  The weights the model may    *)
(* return are drawn from a set on which the exact results coincide with    *)
(* the IEEE-754 double results of the JavaScript (no scaled weight of      *)
(* that set falls on a rounding tie that the double misses).               *)
(* An array-valued field holds [t |-> "array", items |-> <<...>>] or       *)
(* [t |-> "undefined", items |-> <<>>].  An array entry is an object       *)
(* record with t = "object", or NULL.                                      *)
(***************************************************************************)
EXTENDS FiniteSets, Integers, Sequences, TLC

VARIABLES
    pc,                 \* where the request is: "idle", "reading", "awaiting", "responded", "done"
    flow,               \* the flow version that was invoked
    request,            \* the kit handed to customizeInterviewKit (NoKit otherwise)
    output,             \* what the awaited prompt call gave: {output} of the response
    result,             \* the promise of the flow: pending, resolved with a kit, rejected
    uuidCounter,        \* how many identifiers randomUUID() has handed out
    calls,              \* how many times the page has called generateInterviewKit
    submits,            \* how many times handleSubmit has run
    jobDescription,     \* useState(''): the form's job description
    unstopProfileLink,  \* useState(''): the form's profile link
    resumeFile,         \* useState<File | null>(null)
    isLoading,          \* useState(false)
    interviewKit,       \* useState<GenerateInterviewKitOutput | null>(null)
    scores,             \* useState<Record<string, number>>({})
    notes,              \* useState<Record<string, string>>({})
    toasts,             \* the titles of the toasts raised, oldest first
    requests            \* concurrent invocations of generateInterviewKit: id -> its progress

flowVars == <<flow, request, output, result, uuidCounter>>
formVars == <<jobDescription, unstopProfileLink, resumeFile>>
panelVars == <<interviewKit, scores, notes>>
uiVars == <<calls, submits, jobDescription, unstopProfileLink, resumeFile, isLoading,
            interviewKit, scores, notes, toasts>>
vars == <<pc, flow, request, output, result, uuidCounter, calls, submits, jobDescription,
          unstopProfileLink, resumeFile, isLoading, interviewKit, scores, notes, toasts,
          requests>>

-----------------------------------------------------------------------------
(* Bounds of the model *)

MaxRubric == 5        \* longest rubric of in-range weights the model returns
MaxOddRubric == 2     \* longest rubric with malformed entries
MaxComps == 2         \* most competencies in a raw output
MaxQuestions == 2     \* most questions in a competency of a raw output
MaxSubmits == 3       \* most runs of handleSubmit in one session
MaxRequests == 2      \* invocations of generateInterviewKit running concurrently
MaxZeroRubric == 18   \* longest rubric of weights that are all 0

-----------------------------------------------------------------------------
(* JavaScript values *)

ONE == 10000          \* the weight 1.0 in model units
UNDEFINED == "undefined"
NULL == [t |-> "null"]

Num(n) == [t |-> "number", v |-> n]
NaN == [t |-> "NaN", v |-> 0]
Undef == [t |-> "undefined", v |-> 0]
Str == [t |-> "string", v |-> 0]

Array(s) == [t |-> "array", items |-> s]
NoArray == [t |-> "undefined", items |-> <<>>]

\* x ?? d for a string-valued x: only undefined gives way to the default.  The
\* variant C21 has to tell from the code's.
OrStringIfAbsent(x, d) == IF x = UNDEFINED THEN d ELSE x

\* x || d for a string-valued x: undefined and "" are falsy
OrString(x, d) == IF x = UNDEFINED \/ x = "" THEN d ELSE x

\* x || d for a number-valued x: undefined, NaN and 0 are falsy
OrNumber(x, d) ==
    IF x.t = "undefined" \/ x.t = "NaN" \/ (x.t = "number" /\ x.v = 0) THEN d ELSE x

\* (x || []) for an array-valued x
OrEmpty(x) == IF x.t = "array" THEN x.items ELSE <<>>

IsNull(e) == e.t = "null"

-----------------------------------------------------------------------------
(* Defaults the sanitizing step substitutes *)

UnnamedCompetency == "Unnamed Competency"
DefaultImportance == "Medium"
MissingQuestionText == "Missing question text"
MissingModelAnswer == "Missing model answer."
MissingAnswerGuidance == "Missing model answer. (Guidance: For the interviewer, list 3-4 brief, crisp bullet points of key elements a strong candidate should cover, with indicative marks for each, e.g., 'approx. 2-3 points'. Note how to evaluate off-resume info.)"
DefaultInterviewerNote == "Assess candidate based on their response clarity, depth, and relevance to the role."
DefaultType == "Behavioral"
DefaultDifficulty == "Intermediate"
UnnamedCriterion == "Unnamed Criterion (must be well-defined, distinct, high-quality, actionable, measurable, and contextually reference JD/resume/projects/education/context for comprehensive evaluation). AI should refine this."
DefaultWeight == 2000                 \* 0.2
NoOutputError == "AI failed to generate interview kit content."
NoCustomizeOutputError == "AI failed to customize interview kit content."
TypeError == "TypeError: Cannot read properties of null"
ModelCallError == "model call failed"

\* a table that gives every difficulty the time of Intermediate, the variant
\* C14 has to tell from the code's
difficultyTimeMapAllSix ==
    [Naive |-> 6, Beginner |-> 6, Intermediate |-> 6, Expert |-> 6, Master |-> 6]

difficultyTimeMap ==
    [Naive |-> 2, Beginner |-> 4, Intermediate |-> 6, Expert |-> 8, Master |-> 10]

\* difficultyTimeMap[d]: undefined for a key the table does not hold
DifficultyTime(d) ==
    IF d \in DOMAIN difficultyTimeMap THEN Num(difficultyTimeMap[d]) ELSE Undef

\* randomUUID(): the n-th identifier handed out; no two calls give the same one
UUID(n) == "uuid-" \o ToString(n)

-----------------------------------------------------------------------------
(* Sanitizing: questions and competencies *)

\* q.estimatedTimeMinutes || (difficultyTimeMap[q.difficulty || "Intermediate"])
EstimatedTime(q) ==
    OrNumber(q.estimatedTimeMinutes, DifficultyTime(OrString(q.difficulty, DefaultDifficulty)))

\* q.category || (q.type === 'Technical' ? 'Technical' : 'Non-Technical')
CategoryOf(q) ==
    OrString(q.category, IF q.type = "Technical" THEN "Technical" ELSE "Non-Technical")

\* the first version of the flow: both branches of the conditional are 'Non-Technical'
CategoryOfV1(q) ==
    OrString(q.category, IF q.type = "Technical" THEN "Non-Technical" ELSE "Non-Technical")

\* The object a question is mapped to.  id is the identifier the version gives it
\* (UNDEFINED where the version writes no id property); the versions without
\* interviewerNote write none; answerDefault is the version's placeholder.
SanitizeQuestion(q, id, category, note, answerDefault) ==
    [id |-> id,
     question |-> OrString(q.question, MissingQuestionText),
     interviewerNote |-> note,
     modelAnswer |-> OrString(q.modelAnswer, answerDefault),
     type |-> OrString(q.type, DefaultType),
     category |-> category,
     difficulty |-> OrString(q.difficulty, DefaultDifficulty),
     estimatedTimeMinutes |-> EstimatedTime(q)]

\* The object a competency is mapped to, given its already mapped questions
SanitizeCompetency(comp, id, questions) ==
    [id |-> id,
     name |-> OrString(comp.name, UnnamedCompetency),
     importance |-> OrString(comp.importance, DefaultImportance),
     questions |-> questions]

\* .map(...) reads a property of each entry: a null entry raises a TypeError
HasNullEntry(list) == \E i \in 1..Len(list) : IsNull(list[i])

FirstNull(list) == CHOOSE i \in 1..Len(list) : IsNull(list[i]) /\ \A j \in 1..(i - 1) : ~IsNull(list[j])

QuestionsOf(comp) == OrEmpty(comp.questions)

\* mapping competency i raises: the entry is null, or one of its questions is
CompetencyThrows(comp) == IsNull(comp) \/ HasNullEntry(QuestionsOf(comp))

CompetenciesThrow(comps) == \E i \in 1..Len(comps) : CompetencyThrows(comps[i])

FirstThrowing(comps) ==
    CHOOSE i \in 1..Len(comps) :
        CompetencyThrows(comps[i]) /\ \A j \in 1..(i - 1) : ~CompetencyThrows(comps[j])

\* randomUUID() calls made while mapping the competencies before index i:
\* one for each competency and one for each of its questions
RECURSIVE DrawsBefore(_, _)
DrawsBefore(comps, i) ==
    IF i <= 1 THEN 0
    ELSE DrawsBefore(comps, i - 1) + 1 + Len(QuestionsOf(comps[i - 1]))

DrawsOfCompetencies(comps) == DrawsBefore(comps, Len(comps) + 1)

\* randomUUID() calls made when the mapping of the competencies raises: in
\* {id: randomUUID(), name: comp.name || ...} the identifier is drawn before the
\* property of the null entry is read
DrawsBeforeThrow(comps) ==
    LET i == FirstThrowing(comps) IN
    DrawsBefore(comps, i) + 1
        + (IF IsNull(comps[i]) THEN 0 ELSE FirstNull(QuestionsOf(comps[i])))

\* id: comp.id || randomUUID(), id: q.id || randomUUID(): a mapping that keeps
\* the identifier of the raw entry when there is one, the variant C6 has to
\* tell from the code's
CompetenciesEchoingId(comps, base) ==
    [i \in 1..Len(comps) |->
        LET at == base + DrawsBefore(comps, i) + 1 IN
        SanitizeCompetency(comps[i], OrString(comps[i].id, UUID(at)),
            [k \in 1..Len(QuestionsOf(comps[i])) |->
                LET q == QuestionsOf(comps[i])[k] IN
                SanitizeQuestion(q, OrString(q.id, UUID(at + k)), CategoryOf(q),
                    OrString(q.interviewerNote, DefaultInterviewerNote), MissingModelAnswer)])]

\* The versions that stamp identifiers: id: randomUUID() is evaluated for the
\* competency first, then for each of its questions, in order
CompetenciesWithUuid(comps, base) ==
    [i \in 1..Len(comps) |->
        LET at == base + DrawsBefore(comps, i) + 1 IN
        SanitizeCompetency(comps[i], UUID(at),
            [k \in 1..Len(QuestionsOf(comps[i])) |->
                LET q == QuestionsOf(comps[i])[k] IN
                SanitizeQuestion(q, UUID(at + k), CategoryOf(q),
                    OrString(q.interviewerNote, DefaultInterviewerNote), MissingModelAnswer)])]

\* customizeInterviewKitFlow: id: comp.id, id: q.id ("Preserve ID")
CompetenciesKeepingId(comps, withNote, answerDefault) ==
    [i \in 1..Len(comps) |->
        SanitizeCompetency(comps[i], comps[i].id,
            [k \in 1..Len(QuestionsOf(comps[i])) |->
                LET q == QuestionsOf(comps[i])[k] IN
                SanitizeQuestion(q, q.id, CategoryOf(q),
                    IF withNote THEN OrString(q.interviewerNote, DefaultInterviewerNote)
                    ELSE UNDEFINED,
                    answerDefault)])]

\* The versions whose schema has no id and no interviewerNote
CompetenciesWithoutId(comps, firstVersion) ==
    [i \in 1..Len(comps) |->
        SanitizeCompetency(comps[i], UNDEFINED,
            [k \in 1..Len(QuestionsOf(comps[i])) |->
                LET q == QuestionsOf(comps[i])[k] IN
                SanitizeQuestion(q, UNDEFINED,
                    IF firstVersion THEN CategoryOfV1(q) ELSE CategoryOf(q),
                    UNDEFINED, MissingAnswerGuidance)])]

-----------------------------------------------------------------------------
(* Sanitizing: rubric criteria *)

Min(a, b) == IF a < b THEN a ELSE b
Max(a, b) == IF a > b THEN a ELSE b

IsNumberType(w) == w.t \in {"number", "NaN"}       \* typeof w === 'number'

\* Math.min(1, w) without the Math.max(0, ...), the variant C16 has to tell
\* from the code's
ClampAboveOnly(w) == IF w.t = "NaN" THEN NaN ELSE Num(Min(ONE, w.v))

\* Math.max(0, Math.min(1, w)): NaN stays NaN
Clamp(w) == IF w.t = "NaN" THEN NaN ELSE Num(Max(0, Min(ONE, w.v)))

\* 0.2 for every weight that is not a number in [0,1], with no clamp: the
\* variant C17 has to tell from the code's
DefaultUnlessInRange(w) ==
    IF w.t = "number" /\ w.v >= 0 /\ w.v <= ONE THEN w ELSE Num(DefaultWeight)

\* typeof crit.weight === 'number' ? Math.max(0, Math.min(1, crit.weight)) : 0.2
ClampOrDefault(w) == IF IsNumberType(w) THEN Clamp(w) ELSE Num(DefaultWeight)

SanitizeCriterion(crit, id) ==
    [id |-> id, name |-> OrString(crit.name, UnnamedCriterion), weight |-> ClampOrDefault(crit.weight)]

\* (output.scoringRubric || []).map(crit => ({...})) with the version's id
RubricWithUuid(rubric, base) ==
    [m \in 1..Len(rubric) |-> SanitizeCriterion(rubric[m], UUID(base + m))]

RubricKeepingId(rubric) ==
    [m \in 1..Len(rubric) |-> SanitizeCriterion(rubric[m], rubric[m].id)]

RubricWithoutId(rubric) ==
    [m \in 1..Len(rubric) |-> SanitizeCriterion(rubric[m], UNDEFINED)]

\* a filter without the typeof test, the variant C4 has to tell from the code's
KeepsNamedCriterion(crit) == ~IsNull(crit) /\ crit.name # UNDEFINED /\ crit.name # ""

\* .filter(crit => crit && crit.name && typeof crit.weight === 'number')
KeepsCriterion(crit) ==
    ~IsNull(crit) /\ crit.name # UNDEFINED /\ crit.name # "" /\ IsNumberType(crit.weight)

FilterRubric(rubric) == SelectSeq(rubric, KeepsCriterion)

\* .filter(...).map(crit => ({id: randomUUID(), name: crit.name!, weight: clamp}))
RubricFilteredWithUuid(rubric, base) ==
    LET kept == FilterRubric(rubric) IN
    [m \in 1..Len(kept) |->
        [id |-> UUID(base + m), name |-> kept[m].name, weight |-> Clamp(kept[m].weight)]]

-----------------------------------------------------------------------------
(* Normalizing: "Ensure rubric weights sum to 1.0" *)

Abs(x) == IF x < 0 THEN -x ELSE x

RECURSIVE SumSeq(_)
SumSeq(s) == IF Len(s) = 0 THEN 0 ELSE s[1] + SumSeq(Tail(s))

HasNaN(rubric) == \E m \in 1..Len(rubric) : rubric[m].weight.t = "NaN"

\* reduce((sum, crit) => sum + crit.weight, 0) over weights none of which is NaN
TotalWeight(rubric) == SumSeq([m \in 1..Len(rubric) |-> rubric[m].weight.v])

\* reduce((sum, crit) => sum + (crit.weight || 0), 0): a NaN weight counts as 0
TotalWeightOrZero(rubric) ==
    SumSeq([m \in 1..Len(rubric) |-> OrNumber(rubric[m].weight, Num(0)).v])

\* totalWeight !== 1.0 in place of the tolerance, the variant C18 has to tell
\* from the code's
NotExactlyOne(total) == total # ONE

\* Math.abs(totalWeight - 1.0) > 0.001
OutsideTolerance(total) == Abs(total - ONE) * 1000 > ONE

\* Math.floor(x * 100) / 100 in place of toFixed(2): the hundredths cut off.
\* The variant C30 has to tell from the code's.
TruncateTo2(num, den) == ((100 * num) \div den) * (ONE \div 100)

\* parseFloat(x.toFixed(2)) for x = num/den >= 0: the nearest hundredth, a tie
\* going up
ToFixed2(num, den) == ((200 * num + den) \div (2 * den)) * (ONE \div 100)

\* a rounding pass that builds each criterion anew from its name and its new
\* weight and so loses the identifier: the variant C23 has to tell from the
\* code's
RoundingPassRebuilding(rubric, nums, den) ==
    LET n == Len(rubric)
        rounded == [m \in 1..(n - 1) |-> ((200 * nums[m] + den) \div (2 * den)) * (ONE \div 100)]
        last == IF ONE > SumSeq(rounded) THEN ONE - SumSeq(rounded) ELSE 0
    IN  [m \in 1..n |->
            [id |-> UNDEFINED, name |-> rubric[m].name,
             weight |-> Num(IF m < n THEN rounded[m] ELSE last)]]

\* The weights after the equal split or the rescale, as fractions num/den, and
\* then the "final rounding pass": all but the last rounded to 2 decimals, the
\* last set to max(0, 1.0 - runningSum)
RoundingPass(rubric, nums, den) ==
    LET n == Len(rubric)
        rounded == [m \in 1..(n - 1) |-> ToFixed2(nums[m], den)]
        runningSum == SumSeq(rounded)
        last == ToFixed2(Max(0, ONE - runningSum), ONE)
    IN  [m \in 1..n |->
            [rubric[m] EXCEPT !.weight = Num(IF m < n THEN rounded[m] ELSE last)]]

\* an equal split kept to 3 decimals, the last criterion taking the rest: the
\* variant C19 has to tell from the code's
EqualSplitToThousandths(rubric) ==
    LET n == Len(rubric)
        share == (1000 \div n) * (ONE \div 1000)
    IN  [m \in 1..n |->
            [rubric[m] EXCEPT !.weight = Num(IF m < n THEN share ELSE ONE - (n - 1) * share)]]

\* equalWeight = 1.0 / length for every criterion
EqualSplit(rubric) == RoundingPass(rubric, [m \in 1..Len(rubric) |-> 1], Len(rubric))

\* crit.weight *= 1.0 / totalWeight
Rescale(rubric, total) ==
    RoundingPass(rubric, [m \in 1..Len(rubric) |-> OrNumber(rubric[m].weight, Num(0)).v], total)

\* The block of the versions that sum crit.weight itself: a NaN weight makes
\* totalWeight NaN, the comparison false, and the rubric is left as it is
NormalizeRubric(rubric) ==
    IF Len(rubric) = 0 \/ HasNaN(rubric) THEN rubric
    ELSE LET totalWeight == TotalWeight(rubric) IN
         IF ~OutsideTolerance(totalWeight) THEN rubric
         ELSE IF totalWeight = 0 THEN EqualSplit(rubric)
         ELSE Rescale(rubric, totalWeight)

\* The block of the version that sums (crit.weight || 0) and scales
\* (crit.weight || 0): a NaN weight is replaced only when the pass runs
NormalizeRubricOrZero(rubric) ==
    IF Len(rubric) = 0 THEN rubric
    ELSE LET totalWeight == TotalWeightOrZero(rubric) IN
         IF ~OutsideTolerance(totalWeight) THEN rubric
         ELSE IF totalWeight = 0 THEN EqualSplit(rubric)
         ELSE Rescale(rubric, totalWeight)

-----------------------------------------------------------------------------
(* The flows.  Each gives [result, draws]: the promise's outcome and the     *)
(* number of randomUUID() calls it made.                                    *)

Pending == [status |-> "pending"]
Resolved(kit) == [status |-> "resolved", kit |-> kit]
Rejected(error) == [status |-> "rejected", error |-> error]

Outcome(res, draws) == [result |-> res, draws |-> draws]

\* What await generateInterviewKitPrompt(input) can give: the call rejects, or
\* resolves with {output} null, or with an object
ModelThrows == [t |-> "throw"]
NoOutput == [t |-> "null"]
Object(competencies, scoringRubric, questions) ==
    [t |-> "object", competencies |-> competencies, scoringRubric |-> scoringRubric,
     questions |-> questions]

\* generate-interview-kit.ts, first version: no identifiers, the category slip
GenerateInterviewKitFlowV1(o) ==
    IF o.t = "throw" THEN Outcome(Rejected(ModelCallError), 0)
    ELSE IF o.t = "null" THEN Outcome(Rejected(NoOutputError), 0)
    ELSE LET comps == OrEmpty(o.competencies)
             rubric == OrEmpty(o.scoringRubric)
         IN  IF CompetenciesThrow(comps) \/ HasNullEntry(rubric)
             THEN Outcome(Rejected(TypeError), 0)
             ELSE Outcome(Resolved(
                    [competencies |-> CompetenciesWithoutId(comps, TRUE),
                     scoringRubric |-> NormalizeRubric(RubricWithoutId(rubric))]), 0)

\* a competency-based version with the guard of the flat-question ones,
\* if (!output || !output.competencies) throw: the variant C29 has to tell
\* from the code's
GenerateInterviewKitFlowNoIdGuarded(o) ==
    IF o.t = "throw" THEN Outcome(Rejected(ModelCallError), 0)
    ELSE IF o.t = "null" \/ o.competencies.t # "array" THEN Outcome(Rejected(NoOutputError), 0)
    ELSE LET comps == OrEmpty(o.competencies)
             rubric == OrEmpty(o.scoringRubric)
         IN  IF CompetenciesThrow(comps) \/ HasNullEntry(rubric)
             THEN Outcome(Rejected(TypeError), 0)
             ELSE Outcome(Resolved(
                    [competencies |-> CompetenciesWithoutId(comps, FALSE),
                     scoringRubric |-> NormalizeRubric(RubricWithoutId(rubric))]), 0)

\* part_002 (first version) and part_004: no identifiers
GenerateInterviewKitFlowNoId(o) ==
    IF o.t = "throw" THEN Outcome(Rejected(ModelCallError), 0)
    ELSE IF o.t = "null" THEN Outcome(Rejected(NoOutputError), 0)
    ELSE LET comps == OrEmpty(o.competencies)
             rubric == OrEmpty(o.scoringRubric)
         IN  IF CompetenciesThrow(comps) \/ HasNullEntry(rubric)
             THEN Outcome(Rejected(TypeError), 0)
             ELSE Outcome(Resolved(
                    [competencies |-> CompetenciesWithoutId(comps, FALSE),
                     scoringRubric |-> NormalizeRubric(RubricWithoutId(rubric))]), 0)

\* part_007: identifiers from randomUUID(), every criterion kept
GenerateInterviewKitFlowUuid(o, base) ==
    IF o.t = "throw" THEN Outcome(Rejected(ModelCallError), 0)
    ELSE IF o.t = "null" THEN Outcome(Rejected(NoOutputError), 0)
    ELSE LET comps == OrEmpty(o.competencies)
             rubric == OrEmpty(o.scoringRubric)
         IN  IF CompetenciesThrow(comps)
             THEN Outcome(Rejected(TypeError), DrawsBeforeThrow(comps))
             ELSE IF HasNullEntry(rubric)
             THEN Outcome(Rejected(TypeError), DrawsOfCompetencies(comps) + FirstNull(rubric))
             ELSE Outcome(Resolved(
                    [competencies |-> CompetenciesWithUuid(comps, base),
                     scoringRubric |-> NormalizeRubric(
                        RubricWithUuid(rubric, base + DrawsOfCompetencies(comps)))]),
                    DrawsOfCompetencies(comps) + Len(rubric))

\* the second version with `output || {}` in place of the throw: no output
\* gives an empty kit.  The variant C7 has to tell from the code's.
GenerateInterviewKitFlowOrEmptyKit(o, base) ==
    IF o.t = "throw" THEN Outcome(Rejected(ModelCallError), 0)
    ELSE IF o.t = "null" THEN Outcome(Resolved([competencies |-> <<>>, scoringRubric |-> <<>>]), 0)
    ELSE LET comps == OrEmpty(o.competencies)
             rubric == OrEmpty(o.scoringRubric)
         IN  IF CompetenciesThrow(comps)
             THEN Outcome(Rejected(TypeError), DrawsBeforeThrow(comps))
             ELSE Outcome(Resolved(
                    [competencies |-> CompetenciesWithUuid(comps, base),
                     scoringRubric |-> NormalizeRubricOrZero(
                        RubricFilteredWithUuid(rubric, base + DrawsOfCompetencies(comps)))]),
                    DrawsOfCompetencies(comps) + Len(FilterRubric(rubric)))

\* generate-interview-kit.ts, second version: identifiers from randomUUID(),
\* criteria without a name or a numeric weight filtered out
GenerateInterviewKitFlowV2(o, base) ==
    IF o.t = "throw" THEN Outcome(Rejected(ModelCallError), 0)
    ELSE IF o.t = "null" THEN Outcome(Rejected(NoOutputError), 0)
    ELSE LET comps == OrEmpty(o.competencies)
             rubric == OrEmpty(o.scoringRubric)
         IN  IF CompetenciesThrow(comps)
             THEN Outcome(Rejected(TypeError), DrawsBeforeThrow(comps))
             ELSE Outcome(Resolved(
                    [competencies |-> CompetenciesWithUuid(comps, base),
                     scoringRubric |-> NormalizeRubricOrZero(
                        RubricFilteredWithUuid(rubric, base + DrawsOfCompetencies(comps)))]),
                    DrawsOfCompetencies(comps) + Len(FilterRubric(rubric)))

\* a flat version with (output.questions || []) in place of the second test of
\* the guard, the variant C8 has to tell from the code's
GenerateInterviewKitFlowFlatOrEmpty(o, base) ==
    IF o.t = "throw" THEN Outcome(Rejected(ModelCallError), 0)
    ELSE IF o.t = "null" THEN Outcome(Rejected(NoOutputError), 0)
    ELSE LET questions == OrEmpty(o.questions) IN
         IF HasNullEntry(questions)
         THEN Outcome(Rejected(TypeError), FirstNull(questions))
         ELSE Outcome(Resolved(
                [questions |-> [k \in 1..Len(questions) |->
                    [id |-> UUID(base + k),
                     question |-> OrString(questions[k].question, MissingQuestionText),
                     modelAnswer |-> OrString(questions[k].modelAnswer, MissingModelAnswer)]]]),
                Len(questions))

\* The flat-question versions (part_003, part_005, part_006, part_008 and the
\* second version in part_002): if (!output || !output.questions) throw
GenerateInterviewKitFlowFlat(o, base) ==
    IF o.t = "throw" THEN Outcome(Rejected(ModelCallError), 0)
    ELSE IF o.t = "null" \/ o.questions.t # "array" THEN Outcome(Rejected(NoOutputError), 0)
    ELSE LET questions == OrEmpty(o.questions) IN
         IF HasNullEntry(questions)
         THEN Outcome(Rejected(TypeError), FirstNull(questions))
         ELSE Outcome(Resolved(
                [questions |-> [k \in 1..Len(questions) |->
                    [id |-> UUID(base + k),
                     question |-> OrString(questions[k].question, MissingQuestionText),
                     modelAnswer |-> OrString(questions[k].modelAnswer, MissingModelAnswer)]]]),
                Len(questions))

\* customize-interview-kit.ts (both versions) and part_009 (withNote = FALSE,
\* the longer answer placeholder): the identifiers of the model's output are kept
CustomizeInterviewKitFlow(o, withNote, answerDefault) ==
    IF o.t = "throw" THEN Outcome(Rejected(ModelCallError), 0)
    ELSE IF o.t = "null" THEN Outcome(Rejected(NoCustomizeOutputError), 0)
    ELSE LET comps == OrEmpty(o.competencies)
             rubric == OrEmpty(o.scoringRubric)
         IN  IF CompetenciesThrow(comps) \/ HasNullEntry(rubric)
             THEN Outcome(Rejected(TypeError), 0)
             ELSE Outcome(Resolved(
                    [competencies |-> CompetenciesKeepingId(comps, withNote, answerDefault),
                     scoringRubric |-> NormalizeRubric(RubricKeepingId(rubric))]), 0)

-----------------------------------------------------------------------------
(* What the model may return.  Its output is not guaranteed to follow the   *)
(* schema: lists, entries and fields may be missing, weights may be any     *)
(* number or no number.                                                     *)

SeqsUpTo(S, n) == UNION {[1..m -> S] : m \in 0..n}

MaybeArrays(lists) == {NoArray} \cup {Array(l) : l \in lists}

\* identifiers as a model would echo them from the kit it was given
CompId(i) == "comp-" \o ToString(i)
QuestionId(i, k) == "q-" \o ToString(i) \o "-" \o ToString(k)
CritId(m) == "crit-" \o ToString(m)

RawQuestion(id, text, answer, note, type, category, difficulty, minutes) ==
    [t |-> "object", id |-> id, question |-> text, modelAnswer |-> answer,
     interviewerNote |-> note, type |-> type, category |-> category,
     difficulty |-> difficulty, estimatedTimeMinutes |-> minutes]

FullQuestion(id) ==
    RawQuestion(id, "Walk me through the cache design.", "Eviction policy. Consistency.",
                "Tests design depth.", "Technical", "Technical", "Expert", Num(8))

BareQuestion ==
    RawQuestion(UNDEFINED, UNDEFINED, UNDEFINED, UNDEFINED, UNDEFINED, UNDEFINED,
                UNDEFINED, Undef)

\* a question and a competency whose fields are all present and empty: the
\* strings are "", the time is 0
EmptyStringQuestion == RawQuestion(QuestionId(1, 1), "", "", "", "", "", "", Num(0))

EmptyStringCompetency == [t |-> "object", id |-> CompId(1), name |-> "", importance |-> "",
                          questions |-> Array(<<EmptyStringQuestion>>)]

\* an entry of a questions list, by kind; a "full" entry echoes the identifier
\* of its position, a "fresh" one carries an identifier the input never had
QuestionOfKind(kind, i, k) ==
    CASE kind = "null" -> NULL
      [] kind = "bare" -> BareQuestion
      [] kind = "fresh" -> FullQuestion("q-new")
      [] OTHER -> FullQuestion(QuestionId(i, k))

QuestionList(kinds, i) == [k \in 1..Len(kinds) |-> QuestionOfKind(kinds[k], i, k)]

RawCompetency(id, name, importance, questions) ==
    [t |-> "object", id |-> id, name |-> name, importance |-> importance,
     questions |-> questions]

\* one competency of every shape: null, or named or not, with its questions
\* list missing or holding up to MaxQuestions entries of any kind
RichCompetencies ==
    {NULL}
    \cup {RawCompetency(CompId(1), "System Design", "High", qs) :
            qs \in MaybeArrays({QuestionList(kinds, 1) :
                    kinds \in SeqsUpTo({"null", "bare", "full", "fresh"}, MaxQuestions)})}
    \cup {RawCompetency(UNDEFINED, UNDEFINED, UNDEFINED, qs) :
            qs \in MaybeArrays({QuestionList(kinds, 1) :
                    kinds \in SeqsUpTo({"bare", "full"}, MaxQuestions)})}

\* a question with every combination of type, category, difficulty and time
VariedQuestions ==
    {RawQuestion(QuestionId(1, 1), "Describe the rollout.", "Canary. Rollback.", "Checks rigor.",
                 type, category, difficulty, minutes) :
        type \in {UNDEFINED, "Technical", "Scenario"},
        category \in {UNDEFINED, "Technical", "Non-Technical"},
        difficulty \in {UNDEFINED, "Naive", "Beginner", "Intermediate", "Expert", "Master"},
        minutes \in {Undef, Num(0), Num(5), Num(-5)}}

\* several competencies, each null, bare without questions, or full with one question
CompetencyOfKind(kind, i) ==
    CASE kind = "null" -> NULL
      [] kind = "bare" -> RawCompetency(UNDEFINED, UNDEFINED, UNDEFINED, NoArray)
      [] OTHER -> RawCompetency(CompId(i), "Delivery", "Low",
                                Array(<<FullQuestion(QuestionId(i, 1))>>))

CompetencyLists ==
    {<<c>> : c \in RichCompetencies \cup {EmptyStringCompetency}}
    \cup {<<RawCompetency(CompId(1), "Delivery", "Medium", Array(<<q>>))>> : q \in VariedQuestions}
    \cup {[i \in 1..Len(kinds) |-> CompetencyOfKind(kinds[i], i)] :
            kinds \in SeqsUpTo({"null", "bare", "full"}, MaxComps)}

RawCriterion(id, name, weight) == [t |-> "object", id |-> id, name |-> name, weight |-> weight]

\* weights in range, chosen so that a rubric of them has totals on both sides
\* of the tolerance and scaled weights on exact rounding ties (0.125, 0.625)
InRangeWeights == {0, 5, 2000, 5000, ONE}

\* every kind of weight: in range, below 0, above 1, not a number, missing, a string
AnyWeights ==
    {Num(w) : w \in {5000, ONE, -2000, 15000}} \cup {NaN, Undef, Str}

\* the name of the criterion at position m of a well-formed rubric
CriterionName(m) == "Criterion " \o ToString(m)

\* rubrics of named criteria with in-range weights, up to MaxRubric long
PlainRubrics ==
    {[m \in 1..Len(ws) |-> RawCriterion(CritId(m), CriterionName(m), Num(ws[m]))] :
        ws \in SeqsUpTo(InRangeWeights, MaxRubric)}

\* short rubrics with any entry: null, unnamed, any kind of weight
OddCriteria ==
    {NULL} \cup {RawCriterion(UNDEFINED, name, w) :
                    name \in {UNDEFINED, "Code quality", "Communication"}, w \in AnyWeights}

OddRubrics == SeqsUpTo(OddCriteria, MaxOddRubric)

TwoCriteria ==
    <<RawCriterion(CritId(1), "Depth of system design", Num(6000)),
      RawCriterion(CritId(2), "Code quality", Num(4000))>>

\* rubrics of named criteria whose weights are all 0, up to MaxZeroRubric long
ZeroRubrics ==
    {[m \in 1..n |-> RawCriterion(CritId(m), CriterionName(m), Num(0))] :
        n \in 1..MaxZeroRubric}

\* five criteria none of which has a numeric weight, one of them unnamed: with
\* the default of 0.2 each they sum to 1.0
UnweightedRubric ==
    [m \in 1..5 |->
        RawCriterion(CritId(m), IF m = 3 THEN UNDEFINED ELSE CriterionName(m),
                     IF m % 2 = 0 THEN Str ELSE Undef)]

\* two criteria of weight 1.0 each: the rubric is rescaled
OverweightCriteria ==
    <<RawCriterion(CritId(1), "Code quality", Num(ONE)),
      RawCriterion(CritId(2), "Communication", Num(ONE))>>

\* objects for the competency-based flows: a rubric of any kind beside no
\* competencies, or competencies of any kind beside a plain or missing rubric
KitOutputs ==
    {Object(NoArray, r, NoArray) : r \in MaybeArrays(PlainRubrics \cup OddRubrics \cup ZeroRubrics
                                                  \cup {UnweightedRubric})}
    \cup {Object(c, r, NoArray) :
            c \in MaybeArrays(CompetencyLists), r \in {NoArray, Array(TwoCriteria), Array(OverweightCriteria)}}

\* objects for the flat-question flows
FlatOutputs ==
    {Object(NoArray, NoArray, qs) :
        qs \in MaybeArrays({QuestionList(kinds, 1) :
                kinds \in SeqsUpTo({"null", "bare", "full"}, MaxQuestions)})}

GenerateFlows == {"generate.v1", "generate.v2", "generate.noid", "generate.uuid", "generate.flat"}
CustomizeFlows == {"customize", "customize.part_009"}

OutputsFor(f) ==
    {ModelThrows, NoOutput} \cup (IF f = "generate.flat" THEN FlatOutputs ELSE KitOutputs)

-----------------------------------------------------------------------------
(* A flow invoked directly: the call, the model's response, the flow's body *)

NotCalled == [t |-> "none"]
NoKit == [competencies |-> <<>>, scoringRubric |-> <<>>]
NoFile == "null"
NoInterviewKit == [status |-> "null"]
Displayed(kit) == [status |-> "kit", kit |-> kit]
EmptyRecord == [key \in {} |-> 0]     \* {}: a Record<string, ...> without keys

\* an invocation that has not started; none has, in a session of one request
IdleRequest == [pc |-> "idle", output |-> NotCalled, result |-> Pending, modelCalls |-> 0]
NoRequests == [r \in 1..MaxRequests |-> IdleRequest]

\* a kit as generateInterviewKit returned it earlier, identifiers by position
PreviousKit(nComps) ==
    [competencies |-> [i \in 1..nComps |->
        [id |-> CompId(i), name |-> "Delivery", importance |-> "Low",
         questions |-> <<[id |-> QuestionId(i, 1)], [id |-> QuestionId(i, 2)]>>]],
     scoringRubric |-> [m \in 1..MaxRubric |-> [id |-> CritId(m)]]]

Init ==
    /\ pc = "idle"
    /\ flow = "none"
    /\ request = NoKit
    /\ output = NotCalled
    /\ result = Pending
    /\ uuidCounter = 0
    /\ calls = 0
    /\ submits = 0
    /\ jobDescription = ""
    /\ unstopProfileLink = ""
    /\ resumeFile = NoFile
    /\ isLoading = FALSE
    /\ interviewKit = NoInterviewKit
    /\ scores = EmptyRecord
    /\ notes = EmptyRecord
    /\ toasts = <<>>
    /\ requests = NoRequests

\* generateInterviewKit(input): return generateInterviewKitFlow(input)
InvokeGenerate ==
    /\ pc = "idle"
    /\ \E f \in GenerateFlows : flow' = f
    /\ request' = NoKit
    /\ pc' = "awaiting"
    /\ UNCHANGED <<requests, output, result, uuidCounter, uiVars>>

\* customizeInterviewKit(input): the input carries the kit to refine
InvokeCustomize ==
    /\ pc = "idle"
    /\ \E f \in CustomizeFlows : flow' = f
    /\ \E n \in 1..MaxComps : request' = PreviousKit(n)
    /\ pc' = "awaiting"
    /\ UNCHANGED <<requests, output, result, uuidCounter, uiVars>>

\* const {output} = await generateInterviewKitPrompt(input): the model answers
ModelResponds ==
    /\ pc = "awaiting"
    /\ \E o \in OutputsFor(flow) : output' = o
    /\ pc' = "responded"
    /\ UNCHANGED <<requests, flow, request, result, uuidCounter, uiVars>>

\* the rest of the flow's body, run on the response
Settle(outcome) ==
    /\ result' = outcome.result
    /\ uuidCounter' = uuidCounter + outcome.draws
    /\ pc' = "done"
    /\ UNCHANGED <<requests, flow, request, output, uiVars>>

FlowV1 ==
    /\ pc = "responded" /\ flow = "generate.v1"
    /\ Settle(GenerateInterviewKitFlowV1(output))

FlowV2 ==
    /\ pc = "responded" /\ flow = "generate.v2"
    /\ Settle(GenerateInterviewKitFlowV2(output, uuidCounter))

FlowNoId ==
    /\ pc = "responded" /\ flow = "generate.noid"
    /\ Settle(GenerateInterviewKitFlowNoId(output))

FlowUuid ==
    /\ pc = "responded" /\ flow = "generate.uuid"
    /\ Settle(GenerateInterviewKitFlowUuid(output, uuidCounter))

FlowFlat ==
    /\ pc = "responded" /\ flow = "generate.flat"
    /\ Settle(GenerateInterviewKitFlowFlat(output, uuidCounter))

FlowCustomize ==
    /\ pc = "responded" /\ flow = "customize"
    /\ Settle(CustomizeInterviewKitFlow(output, TRUE, MissingModelAnswer))

FlowCustomizePart009 ==
    /\ pc = "responded" /\ flow = "customize.part_009"
    /\ Settle(CustomizeInterviewKitFlow(output, FALSE, MissingAnswerGuidance))

Next ==
    \/ InvokeGenerate
    \/ InvokeCustomize
    \/ ModelResponds
    \/ FlowV1
    \/ FlowV2
    \/ FlowNoId
    \/ FlowUuid
    \/ FlowFlat
    \/ FlowCustomize
    \/ FlowCustomizePart009

Spec == Init /\ [][Next]_vars

-----------------------------------------------------------------------------
(* The page (Home): the form, handleSubmit around the awaited call, and the *)
(* interview panel with its scores and notes                                *)

JobDescriptionRequired == "Job Description Required"
ProfileLinkRequired == "Unstop Profile Link Required"
ErrorGeneratingKit == "Error Generating Kit"

\* the versions of generateInterviewKit whose kit the panel can score (q.id)
PageFlows == {"generate.v2", "generate.uuid"}

SliderValues == {0, 3, 10}            \* of the slider's 0..10 in steps of 1
NoteTexts == {"solid answer"}

PageKit ==
    Object(Array(<<RawCompetency(UNDEFINED, "Delivery", "High",
                     Array(<<FullQuestion(UNDEFINED), BareQuestion>>))>>),
           Array(TwoCriteria), NoArray)

PageOutputs ==
    {ModelThrows, NoOutput, PageKit,
     Object(NoArray, NoArray, NoArray),
     Object(Array(<<NULL>>), Array(TwoCriteria), NoArray)}

InitPage ==
    /\ pc = "idle"
    /\ flow \in PageFlows
    /\ request = NoKit
    /\ output = NotCalled
    /\ result = Pending
    /\ uuidCounter = 0
    /\ calls = 0
    /\ submits = 0
    /\ jobDescription = ""
    /\ unstopProfileLink = ""
    /\ resumeFile = NoFile
    /\ isLoading = FALSE
    /\ interviewKit = NoInterviewKit
    /\ scores = EmptyRecord
    /\ notes = EmptyRecord
    /\ toasts = <<>>
    /\ requests = NoRequests

\* onChange={(e) => setJobDescription(e.target.value)}
setJobDescription ==
    /\ \E text \in {"", "Senior backend engineer"} :
        /\ text # jobDescription
        /\ jobDescription' = text
    /\ UNCHANGED <<requests, pc, flowVars, calls, submits, unstopProfileLink, resumeFile, isLoading,
                   panelVars, toasts>>

\* onChange={(e) => setUnstopProfileLink(e.target.value)}
setUnstopProfileLink ==
    /\ \E text \in {"", "https://unstop.com/p/candidate"} :
        /\ text # unstopProfileLink
        /\ unstopProfileLink' = text
    /\ UNCHANGED <<requests, pc, flowVars, calls, submits, jobDescription, resumeFile, isLoading,
                   panelVars, toasts>>

\* handleFileChange: setResumeFile(event.target.files[0])
handleFileChange ==
    /\ resumeFile = NoFile
    /\ resumeFile' = "resume.pdf"
    /\ UNCHANGED <<requests, pc, flowVars, calls, submits, jobDescription, unstopProfileLink, isLoading,
                   panelVars, toasts>>

\* toast({title, ...}): one more toast raised
Toast(title) == toasts' = Append(toasts, title)

\* handleSubmit with the two `return`s after the toasts left out: the toast is
\* raised and the submit goes on.  The variant C10 has to tell from the code's.
handleSubmitWithoutReturn ==
    /\ ~isLoading
    /\ submits < MaxSubmits
    /\ submits' = submits + 1
    /\ toasts' = IF jobDescription = "" THEN Append(toasts, JobDescriptionRequired)
                 ELSE IF unstopProfileLink = "" THEN Append(toasts, ProfileLinkRequired)
                 ELSE toasts
    /\ isLoading' = TRUE
    /\ interviewKit' = NoInterviewKit
    /\ scores' = EmptyRecord
    /\ notes' = EmptyRecord
    /\ IF resumeFile # NoFile
       THEN pc' = "reading" /\ calls' = calls
       ELSE pc' = "awaiting" /\ calls' = calls + 1
    /\ UNCHANGED <<requests, flowVars, formVars>>

\* handleSubmit behind a submit button that stays enabled while isLoading, the
\* variant C11 has to tell from the code's
handleSubmitWhileLoading ==
    /\ submits < MaxSubmits
    /\ submits' = submits + 1
    /\ IF jobDescription = ""
       THEN /\ Toast(JobDescriptionRequired)
            /\ UNCHANGED <<requests, pc, flowVars, calls, formVars, isLoading, panelVars>>
       ELSE IF unstopProfileLink = ""
       THEN /\ Toast(ProfileLinkRequired)
            /\ UNCHANGED <<requests, pc, flowVars, calls, formVars, isLoading, panelVars>>
       ELSE /\ isLoading' = TRUE
            /\ interviewKit' = NoInterviewKit
            /\ scores' = EmptyRecord
            /\ notes' = EmptyRecord
            /\ IF resumeFile # NoFile
               THEN pc' = "reading" /\ calls' = calls
               ELSE pc' = "awaiting" /\ calls' = calls + 1
            /\ UNCHANGED <<requests, flowVars, formVars, toasts>>

\* handleSubmit without setInterviewKit(null): the kit of the request before
\* stays displayed while the next one loads.  The variant C26 has to tell from
\* the code's.
handleSubmitKeepingKit ==
    /\ ~isLoading
    /\ submits < MaxSubmits
    /\ submits' = submits + 1
    /\ IF jobDescription = ""
       THEN /\ Toast(JobDescriptionRequired)
            /\ UNCHANGED <<requests, pc, flowVars, calls, formVars, isLoading, panelVars>>
       ELSE IF unstopProfileLink = ""
       THEN /\ Toast(ProfileLinkRequired)
            /\ UNCHANGED <<requests, pc, flowVars, calls, formVars, isLoading, panelVars>>
       ELSE /\ isLoading' = TRUE
            /\ scores' = EmptyRecord
            /\ notes' = EmptyRecord
            /\ IF resumeFile # NoFile
               THEN pc' = "reading" /\ calls' = calls
               ELSE pc' = "awaiting" /\ calls' = calls + 1
            /\ UNCHANGED <<requests, flowVars, formVars, interviewKit, toasts>>

\* handleSubmit up to its first await.  The submit button is disabled while
\* isLoading.  With a resume file the first await is fileToDataUri, otherwise
\* it is the call of generateInterviewKit.
handleSubmit ==
    /\ ~isLoading
    /\ submits < MaxSubmits
    /\ submits' = submits + 1
    /\ IF jobDescription = ""
       THEN /\ Toast(JobDescriptionRequired)
            /\ UNCHANGED <<requests, pc, flowVars, calls, formVars, isLoading, panelVars>>
       ELSE IF unstopProfileLink = ""
       THEN /\ Toast(ProfileLinkRequired)
            /\ UNCHANGED <<requests, pc, flowVars, calls, formVars, isLoading, panelVars>>
       ELSE /\ isLoading' = TRUE
            /\ interviewKit' = NoInterviewKit
            /\ scores' = EmptyRecord
            /\ notes' = EmptyRecord
            /\ IF resumeFile # NoFile
               THEN pc' = "reading" /\ calls' = calls
               ELSE pc' = "awaiting" /\ calls' = calls + 1
            /\ UNCHANGED <<requests, flowVars, formVars, toasts>>

\* reader.onload: the data URI is there and generateInterviewKit is called
FileRead ==
    /\ pc = "reading"
    /\ pc' = "awaiting"
    /\ calls' = calls + 1
    /\ UNCHANGED <<requests, flowVars, submits, formVars, isLoading, panelVars, toasts>>

\* the catch block without the finally block: the toast is raised and
\* isLoading stays as it is.  The variant C15 has to tell from the code's.
FailedWithoutFinally ==
    /\ Toast(ErrorGeneratingKit)
    /\ pc' = "idle"
    /\ output' = NotCalled
    /\ result' = Pending
    /\ UNCHANGED <<requests, flow, request, uuidCounter, calls, submits, formVars, isLoading,
                   panelVars>>

\* setInterviewKit(kit) with no finally block after it: the kit is displayed
\* and isLoading stays true.  The variant C24 has to tell from the code's.
SubmitResolvedWithoutFinally ==
    /\ pc = "done"
    /\ result.status = "resolved"
    /\ interviewKit' = Displayed(result.kit)
    /\ pc' = "idle"
    /\ output' = NotCalled
    /\ result' = Pending
    /\ UNCHANGED <<requests, flow, request, uuidCounter, calls, submits, formVars, isLoading,
                   scores, notes, toasts>>

\* catch (error) {toast(...)} finally {setIsLoading(false)}
Failed ==
    /\ Toast(ErrorGeneratingKit)
    /\ isLoading' = FALSE
    /\ pc' = "idle"
    /\ output' = NotCalled
    /\ result' = Pending
    /\ UNCHANGED <<requests, flow, request, uuidCounter, calls, submits, formVars, panelVars>>

\* reader.onerror = reject: the await throws into the catch block
FileReadFails ==
    /\ pc = "reading"
    /\ Failed

\* the model answers the call the page made
ModelRespondsToPage ==
    /\ pc = "awaiting"
    /\ \E o \in PageOutputs : output' = o
    /\ pc' = "responded"
    /\ UNCHANGED <<requests, flow, request, result, uuidCounter, uiVars>>

\* const kit = await generateInterviewKit(...); setInterviewKit(kit); finally
SubmitResolved ==
    /\ pc = "done"
    /\ result.status = "resolved"
    /\ interviewKit' = Displayed(result.kit)
    /\ isLoading' = FALSE
    /\ pc' = "idle"
    /\ output' = NotCalled
    /\ result' = Pending
    /\ UNCHANGED <<requests, flow, request, uuidCounter, calls, submits, formVars, scores, notes, toasts>>

SubmitRejected ==
    /\ pc = "done"
    /\ result.status = "rejected"
    /\ Failed

\* interviewKit.competencies.flatMap(c => c.questions), as their ids
RECURSIVE FlatMapQuestions(_)
FlatMapQuestions(comps) ==
    IF Len(comps) = 0 THEN <<>> ELSE comps[1].questions \o FlatMapQuestions(Tail(comps))

AllQuestions(kit) == FlatMapQuestions(kit.competencies)

QuestionIds(kit) == {AllQuestions(kit)[k].id : k \in 1..Len(AllQuestions(kit))}

\* {...prev, [key]: value}
WithKey(record, key, value) ==
    [k \in DOMAIN record \cup {key} |-> IF k = key THEN value ELSE record[k]]

\* a quotient of two integers, as the pair of them
Ratio(num, den) == [num |-> num, den |-> den]

\* calculateAverageScore dividing by allQuestions.length, the variant C25 has
\* to tell from the code's
calculateAverageScoreOverAll ==
    IF interviewKit.status # "kit" THEN Ratio(0, 1)
    ELSE LET allQuestions == AllQuestions(interviewKit.kit) IN
         IF DOMAIN scores = {} \/ Len(allQuestions) = 0 THEN Ratio(0, 1)
         ELSE Ratio(SumSeq([k \in 1..Len(allQuestions) |->
                        IF allQuestions[k].id \in DOMAIN scores
                        THEN scores[allQuestions[k].id] ELSE 0]),
                    Len(allQuestions))

\* calculateAverageScore: 0 without a kit, without a score, or without a scored
\* question of the kit; otherwise the total of (scores[q.id] || 0) over all
\* questions divided by the number of questions with scores[q.id] !== undefined
calculateAverageScore ==
    IF interviewKit.status # "kit" THEN Ratio(0, 1)
    ELSE LET allQuestions == AllQuestions(interviewKit.kit)
             scoredQuestionsCount ==
                Cardinality({k \in 1..Len(allQuestions) : allQuestions[k].id \in DOMAIN scores})
             totalScore ==
                SumSeq([k \in 1..Len(allQuestions) |->
                    IF allQuestions[k].id \in DOMAIN scores
                    THEN scores[allQuestions[k].id] ELSE 0])
         IN  IF DOMAIN scores = {} THEN Ratio(0, 1)
             ELSE IF scoredQuestionsCount = 0 THEN Ratio(0, 1)
             ELSE Ratio(totalScore, scoredQuestionsCount)

\* the slider of a question of the displayed kit
handleScoreChange ==
    /\ interviewKit.status = "kit"
    /\ \E questionId \in QuestionIds(interviewKit.kit), value \in SliderValues :
        /\ scores' = WithKey(scores, questionId, value)
        /\ scores' # scores
    /\ UNCHANGED <<requests, pc, flowVars, calls, submits, formVars, isLoading, interviewKit, notes, toasts>>

\* the notes box of a question of the displayed kit
handleNotesChange ==
    /\ interviewKit.status = "kit"
    /\ \E questionId \in QuestionIds(interviewKit.kit), value \in NoteTexts :
        /\ notes' = WithKey(notes, questionId, value)
        /\ notes' # notes
    /\ UNCHANGED <<requests, pc, flowVars, calls, submits, formVars, isLoading, interviewKit, scores, toasts>>

\* handleRestart without setScores({}) and setNotes({}), the variant C27 has
\* to tell from the code's
handleRestartKeepingScores ==
    /\ interviewKit.status = "kit"
    /\ jobDescription' = ""
    /\ unstopProfileLink' = ""
    /\ resumeFile' = NoFile
    /\ interviewKit' = NoInterviewKit
    /\ UNCHANGED <<requests, pc, flowVars, calls, submits, isLoading, scores, notes, toasts>>

\* "Generate New Kit", rendered only while a kit is displayed
handleRestart ==
    /\ interviewKit.status = "kit"
    /\ jobDescription' = ""
    /\ unstopProfileLink' = ""
    /\ resumeFile' = NoFile
    /\ interviewKit' = NoInterviewKit
    /\ scores' = EmptyRecord
    /\ notes' = EmptyRecord
    /\ UNCHANGED <<requests, pc, flowVars, calls, submits, isLoading, toasts>>

NextPage ==
    \/ setJobDescription
    \/ setUnstopProfileLink
    \/ handleFileChange
    \/ handleSubmit
    \/ FileRead
    \/ FileReadFails
    \/ ModelRespondsToPage
    \/ FlowV2
    \/ FlowUuid
    \/ SubmitResolved
    \/ SubmitRejected
    \/ handleScoreChange
    \/ handleNotesChange
    \/ handleRestart

SpecPage == InitPage /\ [][NextPage]_vars

\* The page where every await of handleSubmit settles: the FileReader fires
\* onload or onerror, the model call resolves or rejects, the flow runs to its
\* end and the handler resumes after its await.
SpecPageLive ==
    /\ InitPage /\ [][NextPage]_vars
    /\ WF_vars(FileRead \/ FileReadFails)
    /\ WF_vars(ModelRespondsToPage)
    /\ WF_vars(FlowV2 \/ FlowUuid)
    /\ WF_vars(SubmitResolved \/ SubmitRejected)

-----------------------------------------------------------------------------
(* Several invocations of generateInterviewKit at once.  Each awaits its own *)
(* prompt call; the code after the await has no further await and runs to   *)
(* its return in one step.  The invocations share the module: its constant  *)
(* difficultyTimeMap and randomUUID().                                      *)

RequestIds == 1..MaxRequests

\* the flow of the build, applied to an output with the next identifier at base + 1
FlowOutcome(f, o, base) ==
    IF f = "generate.v2" THEN GenerateInterviewKitFlowV2(o, base)
    ELSE GenerateInterviewKitFlowUuid(o, base)

ConcurrentOutputs ==
    PageOutputs
    \cup {Object(Array(<<RawCompetency(CompId(1), UNDEFINED, UNDEFINED,
                           Array(<<BareQuestion>>))>>),
                 Array(<<RawCriterion(CritId(1), "Code quality", Num(ONE)),
                         RawCriterion(CritId(2), "Communication", Num(ONE))>>),
                 NoArray)}

InitConcurrent ==
    /\ pc = "idle"
    /\ flow \in PageFlows
    /\ request = NoKit
    /\ output = NotCalled
    /\ result = Pending
    /\ uuidCounter = 0
    /\ calls = 0
    /\ submits = 0
    /\ jobDescription = ""
    /\ unstopProfileLink = ""
    /\ resumeFile = NoFile
    /\ isLoading = FALSE
    /\ interviewKit = NoInterviewKit
    /\ scores = EmptyRecord
    /\ notes = EmptyRecord
    /\ toasts = <<>>
    /\ requests = NoRequests

singleVars == <<pc, flow, request, output, result, calls, submits, jobDescription,
                unstopProfileLink, resumeFile, isLoading, interviewKit, scores, notes, toasts>>

\* generateInterviewKit(input) -> generateInterviewKitFlow(input) -> the one
\* await generateInterviewKitPrompt(input)
CallGenerate(r) ==
    /\ requests[r].pc = "idle"
    /\ requests' = [requests EXCEPT ![r].pc = "awaiting", ![r].modelCalls = @ + 1]
    /\ UNCHANGED <<singleVars, uuidCounter>>

\* a prompt call that is made again after it threw once, the variant C13 has to
\* tell from the code's
PromptSettlesOrRetries(r) ==
    /\ requests[r].pc = "awaiting"
    /\ \/ \E o \in ConcurrentOutputs :
            requests' = [requests EXCEPT ![r].pc = "responded", ![r].output = o]
       \/ /\ requests[r].modelCalls < 2
          /\ requests' = [requests EXCEPT ![r].modelCalls = @ + 1]
    /\ UNCHANGED <<singleVars, uuidCounter>>

\* the prompt call of request r settles: it throws, or gives its output
PromptSettles(r) ==
    /\ requests[r].pc = "awaiting"
    /\ \E o \in ConcurrentOutputs :
        requests' = [requests EXCEPT ![r].pc = "responded", ![r].output = o]
    /\ UNCHANGED <<singleVars, uuidCounter>>

\* a flow body that reads the output from a place all invocations write to,
\* so that it may see the output of another one; the variant C12 has to tell
\* from the code's
RunFlowOnSharedOutput(r) ==
    /\ requests[r].pc = "responded"
    /\ \E other \in RequestIds :
        /\ requests[other].pc \in {"responded", "done"}
        /\ LET outcome == FlowOutcome(flow, requests[other].output, uuidCounter) IN
            /\ requests' = [requests EXCEPT ![r].pc = "done", ![r].result = outcome.result]
            /\ uuidCounter' = uuidCounter + outcome.draws
    /\ UNCHANGED singleVars

\* the flow's body after the await, on the output of request r
RunFlow(r) ==
    /\ requests[r].pc = "responded"
    /\ LET outcome == FlowOutcome(flow, requests[r].output, uuidCounter) IN
        /\ requests' = [requests EXCEPT ![r].pc = "done", ![r].result = outcome.result]
        /\ uuidCounter' = uuidCounter + outcome.draws
    /\ UNCHANGED singleVars

Call == \E r \in RequestIds : CallGenerate(r)
Settles == \E r \in RequestIds : PromptSettles(r)
Run == \E r \in RequestIds : RunFlow(r)

NextConcurrent ==
    \/ Call
    \/ Settles
    \/ Run

SpecConcurrent == InitConcurrent /\ [][NextConcurrent]_vars

-----------------------------------------------------------------------------
(* Properties of the flows *)

\* a flow has returned: its promise resolved with a kit, or rejected
Returned == pc = "done"
ReturnsKit == Returned /\ result.status = "resolved"
Rejects == Returned /\ result.status = "rejected"

\* the flow builds a kit of competencies and a scoring rubric
RubricFlow == flow \in (GenerateFlows \cup CustomizeFlows) \ {"generate.flat"}

\* the rubric list of the model's raw output and the rubric of the returned kit
RawRubric == OrEmpty(output.scoringRubric)
ReturnedRubric == result.kit.scoringRubric

RawWeights ==
    [m \in 1..Len(RawRubric) |-> IF IsNull(RawRubric[m]) THEN NULL ELSE RawRubric[m].weight]
ReturnedWeights == [m \in 1..Len(ReturnedRubric) |-> ReturnedRubric[m].weight]

WeightsAreNumbers(rubric) == \A m \in 1..Len(rubric) : rubric[m].weight.t = "number"

\* C1: for every non-empty rubric in the model's raw output, whatever its
\* weights, the weights of the scoringRubric of the kit that generateInterviewKit
\* or customizeInterviewKit returns sum to a value in [0.99, 1.01].
C1_WeightSumWithinTolerance ==
    (ReturnsKit /\ RubricFlow /\ Len(RawRubric) > 0) =>
        /\ WeightsAreNumbers(ReturnedRubric)
        /\ 100 * TotalWeight(ReturnedRubric) >= 99 * ONE
        /\ 100 * TotalWeight(ReturnedRubric) <= 101 * ONE

\* C1, the failing run: the raw weights 0.2, 0.2, 0.2, 1.0, 0 sum to 1.6, are
\* scaled to 0.125, 0.125, 0.125, 0.625, 0 and rounded to 0.13, 0.13, 0.13,
\* 0.63; the last weight is max(0, 1 - 1.02) = 0 and the sum is 1.02.
C1_SumOnePointZeroTwo ==
    /\ ReturnsKit /\ flow \in {"generate.v1", "customize"}
    /\ RawWeights = <<Num(2000), Num(2000), Num(2000), Num(ONE), Num(0)>>
    /\ ReturnedWeights = <<Num(1300), Num(1300), Num(1300), Num(6300), Num(0)>>
    /\ TotalWeight(ReturnedRubric) = 10200

\* C2: after the normalization of any non-empty rubric the weights sum to
\* exactly 1.00, for every length and every combination of input weights: also
\* when the clamped sum was already within 0.001 of 1, and when the rounded
\* weights before the last add up to more than 1.
C2_WeightSumExactlyOne ==
    (ReturnsKit /\ RubricFlow /\ Len(ReturnedRubric) > 0) =>
        /\ WeightsAreNumbers(ReturnedRubric)
        /\ TotalWeight(ReturnedRubric) = ONE

\* C2, a failing run: the raw weights 1.0 and 0.0005 sum to 1.0005, within
\* 0.001 of 1, and are returned as they are.
C2_SumLeftWithinTolerance ==
    /\ ReturnsKit /\ flow \in {"generate.uuid", "generate.v2"}
    /\ RawWeights = <<Num(ONE), Num(5)>>
    /\ ReturnedWeights = RawWeights
    /\ TotalWeight(ReturnedRubric) = ONE + 5

\* C3: every criterion of the rubric of a returned kit has a weight w with
\* 0 <= w <= 1, for every raw weight the model can return: missing, not a
\* number, NaN, negative, greater than 1.
C3_WeightsInUnitInterval ==
    (ReturnsKit /\ RubricFlow) =>
        \A m \in 1..Len(ReturnedRubric) :
            /\ ReturnedRubric[m].weight.t = "number"
            /\ ReturnedRubric[m].weight.v >= 0
            /\ ReturnedRubric[m].weight.v <= ONE

\* C3, the failing run: the raw weight NaN has typeof 'number', the clamp
\* leaves it NaN, and in the second version of generate-interview-kit.ts the
\* other weight, 1.0, keeps the total within the tolerance: NaN is returned.
C3_NaNReturned ==
    /\ ReturnsKit /\ flow = "generate.v2"
    /\ RawWeights = <<Num(ONE), NaN>>
    /\ ReturnedWeights = <<Num(ONE), NaN>>

NamesOf(rubric) == [m \in 1..Len(rubric) |-> rubric[m].name]

\* a raw criterion with a name and a weight of type number
NamedAndNumeric(crit) ==
    ~IsNull(crit) /\ crit.name \notin {UNDEFINED, ""} /\ crit.weight.t \in {"number", "NaN"}

\* the names of the raw rubric, position by position, the placeholder standing
\* for a missing name
RawNamesOrPlaceholder ==
    [m \in 1..Len(RawRubric) |->
        IF IsNull(RawRubric[m]) THEN NULL
        ELSE IF RawRubric[m].name \in {UNDEFINED, ""} THEN UnnamedCriterion
        ELSE RawRubric[m].name]

\* C4 as stated: the returned scoringRubric has the criteria of the raw rubric,
\* as many and in the same order; none is dropped or added (one without a name
\* or a numeric weight is kept with defaults); an empty rubric stays empty.
C4_SameCountSameOrder ==
    (ReturnsKit /\ RubricFlow) =>
        /\ Len(ReturnedRubric) = Len(RawRubric)
        /\ NamesOf(ReturnedRubric) = RawNamesOrPlaceholder

\* C4, amended: the versions that map the rubric keep every criterion in its
\* place, a missing name replaced by the placeholder; the second version of
\* generate-interview-kit.ts returns, in their order, exactly the raw criteria
\* that have a name and a weight of type number; an empty rubric stays empty.
C4_KeptOrFilteredInOrder ==
    (ReturnsKit /\ RubricFlow) =>
        /\ flow # "generate.v2" =>
            /\ Len(ReturnedRubric) = Len(RawRubric)
            /\ NamesOf(ReturnedRubric) = RawNamesOrPlaceholder
        /\ flow = "generate.v2" =>
            NamesOf(ReturnedRubric) = NamesOf(SelectSeq(RawRubric, NamedAndNumeric))
        /\ Len(RawRubric) = 0 => Len(ReturnedRubric) = 0

\* C4, the case: of two raw criteria the first has no numeric weight; the
\* second version drops it and returns the second one alone
C4_CriterionDropped ==
    /\ ReturnsKit /\ flow = "generate.v2"
    /\ Len(RawRubric) = 2
    /\ ~IsNull(RawRubric[1]) /\ RawRubric[1].name = "Code quality" /\ RawRubric[1].weight = Str
    /\ NamesOf(ReturnedRubric) = <<"Communication">>

\* the versions whose output schema gives every entity an id
IdFlow == flow \in {"generate.v2", "generate.uuid", "customize", "customize.part_009"}

\* every field the version's output schema requires holds a value
QuestionPopulated(q) ==
    /\ IdFlow => q.id # UNDEFINED
    /\ q.question # UNDEFINED /\ q.modelAnswer # UNDEFINED
    /\ q.type # UNDEFINED /\ q.category # UNDEFINED /\ q.difficulty # UNDEFINED
    /\ q.estimatedTimeMinutes.t = "number"

CompetencyPopulated(comp) ==
    /\ IdFlow => comp.id # UNDEFINED
    /\ comp.name # UNDEFINED /\ comp.importance # UNDEFINED
    /\ \A k \in 1..Len(comp.questions) : QuestionPopulated(comp.questions[k])

CriterionPopulated(crit) ==
    /\ IdFlow => crit.id # UNDEFINED
    /\ crit.name # UNDEFINED
    /\ crit.weight.t \in {"number", "NaN"}

KitPopulated(kit) ==
    /\ \A i \in 1..Len(kit.competencies) : CompetencyPopulated(kit.competencies[i])
    /\ \A m \in 1..Len(kit.scoringRubric) : CriterionPopulated(kit.scoringRubric[m])

\* C5: the sanitizing step is total: for every non-null raw output in which
\* any field is missing or null (the top-level lists, a competency's questions
\* list, single competency, question or criterion entries, any of their
\* fields) the flow does not throw and returns a kit in which every competency,
\* question and criterion has all its required fields populated.
C5_SanitizerTotal ==
    (Returned /\ RubricFlow /\ output.t = "object") =>
        /\ result.status = "resolved"
        /\ KitPopulated(result.kit)

\* C5, the failing run: the competencies list of the raw output holds null,
\* comp.name is read of it and the flow rejects with a TypeError
C5_NullEntryThrows ==
    /\ Rejects /\ flow = "generate.v2"
    /\ output.t = "object"
    /\ output.competencies = Array(<<NULL>>)
    /\ result.error = TypeError

\* the versions of generateInterviewKit that call randomUUID()
UuidFlow == flow \in {"generate.v2", "generate.uuid", "generate.flat"}

IdsOf(list) == [k \in 1..Len(list) |-> list[k].id]

\* the identifiers of all entities of a returned kit: competencies, questions
\* and criteria, or the questions of a flat kit
EntityIds(kit) ==
    IF flow = "generate.flat" THEN IdsOf(kit.questions)
    ELSE IdsOf(kit.competencies) \o IdsOf(AllQuestions(kit)) \o IdsOf(kit.scoringRubric)

\* what randomUUID() has handed out so far
Generated == {UUID(n) : n \in 1..uuidCounter}

PairwiseDistinct(ids) == \A a, b \in 1..Len(ids) : a # b => ids[a] # ids[b]

NoOutputErrorOf(f) == IF f \in CustomizeFlows THEN NoCustomizeOutputError ELSE NoOutputError

\* C7: if the model call returns no output, generateInterviewKit and
\* customizeInterviewKit reject with an error and never resolve with a kit: no
\* empty kit is returned as a fallback.
C7_NoOutputRejects ==
    (Returned /\ output = NoOutput) =>
        /\ result = Rejected(NoOutputErrorOf(flow))
        /\ uuidCounter = 0

\* C7, the case: the model gave no output and the flow has returned
C7_ReturnedWithoutOutput ==
    /\ Returned /\ output = NoOutput
    /\ flow = "generate.v2"
    /\ result.status = "rejected"

\* a partial object: fields may be missing, but no entry of a list is null
OnlyFieldsMissing(o) ==
    /\ o.t = "object"
    /\ \A i \in 1..Len(OrEmpty(o.competencies)) :
        /\ ~IsNull(OrEmpty(o.competencies)[i])
        /\ \A k \in 1..Len(QuestionsOf(OrEmpty(o.competencies)[i])) :
            ~IsNull(QuestionsOf(OrEmpty(o.competencies)[i])[k])
    /\ \A m \in 1..Len(OrEmpty(o.scoringRubric)) : ~IsNull(OrEmpty(o.scoringRubric)[m])
    /\ \A k \in 1..Len(OrEmpty(o.questions)) : ~IsNull(OrEmpty(o.questions)[k])

\* C8 as stated: when the model returns a non-null but partial object (any of
\* its fields missing, its top-level list of questions or competencies too),
\* generateInterviewKit never rejects, in every variant of the flow.
C8_PartialNeverRejects ==
    (Returned /\ flow \in GenerateFlows /\ OnlyFieldsMissing(output)) =>
        result.status = "resolved"

\* C8, amended: the competency-based variants never reject a partial object: a
\* missing competencies list or rubric gives an empty one; the flat-question
\* variants reject, with the error of a missing output, exactly when the
\* questions list is missing, and return a kit otherwise.
C8_OnlyFlatRejectsMissingList ==
    (Returned /\ flow \in GenerateFlows /\ OnlyFieldsMissing(output)) =>
        /\ flow # "generate.flat" =>
            /\ result.status = "resolved"
            /\ output.competencies = NoArray => result.kit.competencies = <<>>
            /\ output.scoringRubric = NoArray => result.kit.scoringRubric = <<>>
        /\ flow = "generate.flat" =>
            IF output.questions = NoArray THEN result = Rejected(NoOutputError)
            ELSE result.status = "resolved" /\ Len(result.kit.questions) = Len(output.questions.items)

\* C8, the case: a flat-question variant is given an object without questions
C8_FlatWithoutQuestions ==
    /\ Returned /\ flow = "generate.flat"
    /\ output = Object(NoArray, NoArray, NoArray)
    /\ result.status = "rejected"

\* position by position, the entity of the returned list has the identifier
\* of the entity of the input kit's list, and the input has such an entity
SameIds(returned, given) ==
    /\ Len(returned) <= Len(given)
    /\ \A k \in 1..Len(returned) : returned[k].id = given[k].id

\* C9: customizeInterviewKit preserves entity identifiers: every competency,
\* question and criterion of the returned kit has the identifier of the
\* corresponding entity of the previously generated kit passed in; no
\* identifier is regenerated, missing or new.
C9_IdsOfInputKitPreserved ==
    (ReturnsKit /\ flow \in CustomizeFlows) =>
        /\ SameIds(result.kit.competencies, request.competencies)
        /\ \A i \in 1..Len(result.kit.competencies) :
            i <= Len(request.competencies) =>
                SameIds(result.kit.competencies[i].questions, request.competencies[i].questions)
        /\ SameIds(result.kit.scoringRubric, request.scoringRubric)

\* C9, the failing run: the kit passed in has the questions q-1-1 and q-1-2;
\* the model's output gives its question another identifier, and the returned
\* kit carries that one
C9_NewIdReturned ==
    /\ ReturnsKit /\ flow = "customize"
    /\ request = PreviousKit(1)
    /\ output.t = "object"
    /\ output.competencies =
        Array(<<RawCompetency(CompId(1), "System Design", "High",
                              Array(<<FullQuestion("q-new")>>))>>)
    /\ IdsOf(result.kit.competencies[1].questions) = <<"q-new">>
    /\ "q-new" \notin {request.competencies[1].questions[k].id : k \in 1..2}

-----------------------------------------------------------------------------
(* Properties of the page *)

\* a run of handleSubmit
Submitted == submits' = submits + 1

\* C10: a submit with an empty job description, or an empty profile link, is
\* rejected before any model call is made: generateInterviewKit is not invoked,
\* a message is raised immediately, and isLoading, the displayed kit, the
\* scores and the notes are left as they are.
C10_EmptySubmitRejected ==
    [][(Submitted /\ (jobDescription = "" \/ unstopProfileLink = "")) =>
        /\ calls' = calls /\ pc' = pc /\ output' = output /\ result' = result
        /\ toasts' = Append(toasts, IF jobDescription = "" THEN JobDescriptionRequired
                                    ELSE ProfileLinkRequired)
        /\ isLoading' = isLoading
        /\ interviewKit' = interviewKit
        /\ scores' = scores
        /\ notes' = notes]_vars

\* C10, the case: of two submits one made the call, which gave the kit now
\* displayed and scored, and the other was answered with the message alone
C10_RejectedBesideDisplayedKit ==
    /\ submits = 2 /\ calls = 1
    /\ toasts = <<ProfileLinkRequired>>
    /\ unstopProfileLink = ""
    /\ ~isLoading
    /\ interviewKit.status = "kit"
    /\ scores # EmptyRecord /\ notes # EmptyRecord

\* a call of generateInterviewKit made by the page has not settled, or has
\* settled without handleSubmit having resumed
CallOutstanding == pc \in {"awaiting", "responded", "done"}

\* C11: while a generation request is in flight isLoading is true and
\* re-submission is disabled, so within one session at most one
\* generateInterviewKit call is outstanding at any time: a call is made only
\* when none is outstanding, under any interleaving of submits and responses.
C11_AtMostOneCallOutstanding ==
    /\ [](CallOutstanding => isLoading)
    /\ [][calls' = calls + 1 => (~CallOutstanding /\ isLoading' /\ CallOutstanding')]_vars
    /\ [][(isLoading /\ Submitted) => FALSE]_vars

\* C11, the case: the second call of the session is outstanding, the page is
\* loading, and a resume file has been chosen
C11_SecondCallOutstanding ==
    /\ calls = 2 /\ submits = 2
    /\ pc = "awaiting"
    /\ isLoading
    /\ resumeFile # NoFile

\* the competencies of the raw output and of the returned kit
RawCompetencies == OrEmpty(output.competencies)
ReturnedCompetencies == result.kit.competencies

\* the minutes the table of the specification gives a difficulty
TableMinutes(difficulty) ==
    CASE difficulty = "Naive" -> 2
      [] difficulty = "Beginner" -> 4
      [] difficulty = "Intermediate" -> 6
      [] difficulty = "Expert" -> 8
      [] difficulty = "Master" -> 10
      [] difficulty = UNDEFINED -> 6

\* C14: for a question whose estimatedTimeMinutes is missing, the sanitizer
\* sets it from the fixed table keyed by the question's difficulty (Naive 2,
\* Beginner 4, Intermediate 6, Expert 8, Master 10), using Intermediate (6)
\* when the difficulty is missing too; the same on every run.
C14_MissingTimeFromTable ==
    (ReturnsKit /\ RubricFlow) =>
        \A i \in 1..Len(RawCompetencies) :
            \A k \in 1..Len(QuestionsOf(RawCompetencies[i])) :
                LET q == QuestionsOf(RawCompetencies[i])[k] IN
                q.estimatedTimeMinutes = Undef =>
                    ReturnedCompetencies[i].questions[k].estimatedTimeMinutes
                        = Num(TableMinutes(q.difficulty))

\* C14, the case: a Master question without a time is returned with 10 minutes
C14_MasterWithoutTime ==
    /\ ReturnsKit /\ flow = "customize"
    /\ output.competencies =
        Array(<<RawCompetency(CompId(1), "Delivery", "Medium",
                  Array(<<RawQuestion(QuestionId(1, 1), "Describe the rollout.",
                            "Canary. Rollback.", "Checks rigor.", "Scenario", UNDEFINED,
                            "Master", Undef)>>))>>)
    /\ result.kit.competencies[1].questions[1].estimatedTimeMinutes = Num(10)

\* handleSubmit resumes after its await and ends
SubmitEnds == pc # "idle" /\ pc' = "idle"

\* C15: whatever the cause of a failed generation (the model call throws, the
\* model returns no output, the resume file cannot be read), the page ends in
\* one and the same error state: a single generic error notification is
\* raised, isLoading is false and no kit is displayed, also when a kit of an
\* earlier request was displayed before the submit.
C15_OneErrorState ==
    [][(SubmitEnds /\ result.status # "resolved") =>
        /\ toasts' = Append(toasts, ErrorGeneratingKit)
        /\ isLoading /\ ~isLoading'
        /\ interviewKit = NoInterviewKit /\ interviewKit' = NoInterviewKit
        /\ scores' = EmptyRecord /\ notes' = EmptyRecord]_vars

\* C15, the case: of two calls one gave the kit of five entities and the other
\* failed; the error notification is up, nothing is loading, no kit is shown
C15_FailedAfterKit ==
    /\ submits = 2 /\ calls = 2
    /\ uuidCounter = 5
    /\ toasts = <<ErrorGeneratingKit>>
    /\ pc = "idle"
    /\ ~isLoading
    /\ interviewKit = NoInterviewKit
    /\ jobDescription # "" /\ unstopProfileLink # ""

\* a list of weights as a rubric, and the weights of a rubric
AsRubric(weights) == [m \in 1..Len(weights) |-> [weight |-> weights[m]]]
WeightsOf(rubric) == [m \in 1..Len(rubric) |-> rubric[m].weight]

\* the weight the specification's clamp step gives: below 0 is 0, above 1 is
\* 1, and anything that is no number (missing, a string, NaN) is 0.2
ClampedAsSpecified(w) ==
    IF w.t = "number" THEN Num(IF w.v < 0 THEN 0 ELSE IF w.v > ONE THEN ONE ELSE w.v)
    ELSE Num(2000)

\* the weight the code's clamp step gives: NaN is of type number and stays
ClampedAsCoded(w) ==
    IF w.t = "number" THEN Num(IF w.v < 0 THEN 0 ELSE IF w.v > ONE THEN ONE ELSE w.v)
    ELSE IF w.t = "NaN" THEN NaN
    ELSE Num(2000)

\* the criteria the version sums: all of them, or in the second version of
\* generateInterviewKit those with a name and a weight of type number
SummedCriteria ==
    IF flow = "generate.v2" THEN SelectSeq(RawRubric, NamedAndNumeric) ELSE RawRubric

\* C16 as stated: every raw weight is clamped into [0,1], one that is no
\* number or is missing counting 0.2, and the returned weights are what the
\* normalization gives for that list; when the list sums to 1.0 it is returned
\* as it is.
C16_EveryWeightClampedOrDefaulted ==
    (ReturnsKit /\ RubricFlow) =>
        LET clamped == [m \in 1..Len(RawRubric) |-> ClampedAsSpecified(RawWeights[m])] IN
        /\ ReturnedWeights = WeightsOf(NormalizeRubric(AsRubric(clamped)))
        /\ SumSeq([m \in 1..Len(clamped) |-> clamped[m].v]) = ONE => ReturnedWeights = clamped

\* C16, corrected: a raw weight of type number is clamped into [0,1] before
\* the sum (below 0 is 0, above 1 is 1, NaN stays NaN); a weight of another
\* type or a missing one counts 0.2 in the versions that keep every criterion,
\* and in the second version of generateInterviewKit the criterion is dropped
\* before the sum.  The returned weights are what the normalization gives for
\* that list, and when its weights are numbers that sum to 1.0 it is returned
\* as it is: [1.5, -0.2] gives [1.0, 0.0].
C16_NumbersClampedBeforeSum ==
    (ReturnsKit /\ RubricFlow) =>
        LET clamped == [m \in 1..Len(SummedCriteria) |-> ClampedAsCoded(SummedCriteria[m].weight)]
            numbers == \A m \in 1..Len(clamped) : clamped[m].t = "number"
        IN
        /\ ReturnedWeights = WeightsOf(IF flow = "generate.v2"
                                       THEN NormalizeRubricOrZero(AsRubric(clamped))
                                       ELSE NormalizeRubric(AsRubric(clamped)))
        /\ (numbers /\ SumSeq([m \in 1..Len(clamped) |-> clamped[m].v]) = ONE) =>
                ReturnedWeights = clamped
        /\ (flow # "generate.v2" /\ ~numbers) => ReturnedWeights = clamped
        /\ WeightsOf(SummedCriteria) = <<Num(15000), Num(-2000)>> =>
                ReturnedWeights = <<Num(ONE), Num(0)>>

\* C16, the case: the weights 1.5 and -0.2 come back as 1.0 and 0.0
C16_OnePointFiveAndMinusPointTwo ==
    /\ ReturnsKit /\ flow = "generate.v2"
    /\ RawWeights = <<Num(15000), Num(-2000)>>
    /\ NamesOf(RawRubric) = <<"Code quality", "Communication">>
    /\ ReturnedWeights = <<Num(ONE), Num(0)>>

\* the weights of the raw rubric with 0.2 in place of each that is not a
\* number in [0,1]: missing, a string, NaN, below 0, above 1
DefaultedUnlessInRange ==
    [m \in 1..Len(RawRubric) |->
        IF RawWeights[m].t = "number" /\ RawWeights[m].v >= 0 /\ RawWeights[m].v <= ONE
        THEN RawWeights[m] ELSE Num(2000)]

\* the rubric sums to 1.0 when each weight that is no number counts 0.2 and
\* each number counts clamped
SumsToOne(weights) ==
    SumSeq([m \in 1..Len(weights) |->
        IF weights[m].t = "number" THEN Max(0, Min(ONE, weights[m].v)) ELSE 2000]) = ONE

\* C17 as stated: the returned criteria are those of the raw rubric, a missing
\* name replaced by the placeholder, and every weight that is not a number in
\* range (missing, a string, NaN, below 0, above 1) replaced by 0.2 before
\* the normalization.
C17_DefaultUnlessFiniteInRange ==
    (ReturnsKit /\ RubricFlow) =>
        /\ NamesOf(ReturnedRubric) = RawNamesOrPlaceholder
        /\ ReturnedWeights = WeightsOf(NormalizeRubric(AsRubric(DefaultedUnlessInRange)))

\* C17, corrected: in the versions that keep every criterion a missing name
\* becomes the placeholder and a weight that is missing or not of type number
\* becomes 0.2; a number below 0 becomes 0 and one above 1 becomes 1, not 0.2;
\* a NaN weight stays NaN.  The second version of generateInterviewKit has no
\* default: it returns only criteria that had a name and a weight of type
\* number.  (Seen on the rubrics the normalization leaves alone: those that
\* sum to 1.0 after this step, and those with a NaN weight.)
C17_DefaultOnlyForNonNumbers ==
    (ReturnsKit /\ RubricFlow) =>
        IF flow = "generate.v2"
        THEN /\ NamesOf(ReturnedRubric) = NamesOf(SelectSeq(RawRubric, NamedAndNumeric))
             /\ \A m \in 1..Len(ReturnedRubric) : ReturnedRubric[m].name # UnnamedCriterion
        ELSE /\ NamesOf(ReturnedRubric) = RawNamesOrPlaceholder
             /\ \A m \in 1..Len(RawRubric) : RawWeights[m].t = "NaN" => ReturnedWeights[m] = NaN
             /\ ((\A m \in 1..Len(RawRubric) : RawWeights[m].t # "NaN") /\ SumsToOne(RawWeights)) =>
                    \A m \in 1..Len(RawRubric) :
                        ReturnedWeights[m] =
                            CASE RawWeights[m].t # "number" -> Num(2000)
                              [] RawWeights[m].t = "number" /\ RawWeights[m].v < 0 -> Num(0)
                              [] RawWeights[m].t = "number" /\ RawWeights[m].v > ONE -> Num(ONE)
                              [] OTHER -> RawWeights[m]

\* C17, the case: five criteria without a numeric weight, the third without a
\* name, come back with 0.2 each and the placeholder
C17_FiveDefaults ==
    /\ ReturnsKit /\ flow = "generate.uuid"
    /\ RawRubric = UnweightedRubric
    /\ ReturnedWeights = [m \in 1..5 |-> Num(2000)]
    /\ ReturnedRubric[3].name = UnnamedCriterion

\* C17, the case: a weight below 0 beside 1.0 comes back as 0, not as 0.2
C17_BelowZeroClamped ==
    /\ ReturnsKit /\ flow = "customize"
    /\ RawWeights = <<Num(-2000), Num(ONE)>>
    /\ ReturnedWeights = <<Num(0), Num(ONE)>>

\* the weights the version sums, clamped, and their total with NaN counting 0
ClampedWeights ==
    [m \in 1..Len(SummedCriteria) |-> ClampedAsCoded(SummedCriteria[m].weight)]
ClampedTotal ==
    SumSeq([m \in 1..Len(ClampedWeights) |->
        IF ClampedWeights[m].t = "number" THEN ClampedWeights[m].v ELSE 0])
ClampedAreNumbers == \A m \in 1..Len(ClampedWeights) : ClampedWeights[m].t = "number"

\* r is x / total rounded to 2 decimals, a tie going up: r is k hundredths
\* with k - 1/2 <= 100 * x / total < k + 1/2
IsRoundedQuotient(r, x, total) ==
    /\ r % 100 = 0
    /\ LET k == r \div 100 IN
       /\ (2 * k - 1) * total <= 200 * x
       /\ 200 * x < (2 * k + 1) * total

\* the returned weights are those of the rescale and the rounding pass
RescaledAndRounded ==
    LET n == Len(ClampedWeights) IN
    /\ Len(ReturnedWeights) = n
    /\ WeightsAreNumbers(ReturnedRubric)
    /\ \A m \in 1..(n - 1) :
            IsRoundedQuotient(ReturnedWeights[m].v,
                              IF ClampedWeights[m].t = "number" THEN ClampedWeights[m].v ELSE 0,
                              ClampedTotal)
    /\ ReturnedWeights[n].v =
            Max(0, ONE - SumSeq([m \in 1..(n - 1) |-> ReturnedWeights[m].v]))
    /\ \A m \in 1..n : ReturnedWeights[m].v % 100 = 0

\* C18 as stated: for every non-empty rubric whose clamped sum is not 0 the
\* returned weights are the rescaled ones after the rounding pass, multiples
\* of 0.01 all of them, also when the clamped sum was within 0.001 of 1.
C18_RescaledWhateverTheSum ==
    (ReturnsKit /\ RubricFlow /\ Len(ClampedWeights) > 0 /\ ClampedAreNumbers
        /\ ClampedTotal # 0) => RescaledAndRounded

\* C18, corrected: the rescale and the rounding pass apply to a non-empty
\* rubric only when its clamped sum differs from 1 by more than 0.001; then,
\* the sum not being 0, each weight but the last is its quotient by the sum
\* rounded to 2 decimals, the last is max(0, 1.0 - the sum of the others), and
\* all are multiples of 0.01.  A rubric whose clamped sum is within 0.001 of 1
\* is returned as clamped, multiples of 0.01 or not.  A NaN weight counts 0 in
\* the second version of generateInterviewKit; in the other versions it makes
\* the sum NaN and the rubric is returned as clamped.
C18_RescaledOutsideTolerance ==
    (ReturnsKit /\ RubricFlow /\ Len(ClampedWeights) > 0) =>
        IF (flow # "generate.v2" /\ ~ClampedAreNumbers)
            \/ (1000 * ClampedTotal >= 999 * ONE /\ 1000 * ClampedTotal <= 1001 * ONE)
        THEN ReturnedWeights = ClampedWeights
        ELSE ClampedTotal # 0 => RescaledAndRounded

\* C18, the case: 0.5, 0.5 and 0.0005 sum to 1.0005 and come back as they are
C18_WithinToleranceUnrounded ==
    /\ ReturnsKit /\ flow = "customize"
    /\ RawWeights = <<Num(5000), Num(5000), Num(5)>>
    /\ ReturnedWeights = <<Num(5000), Num(5000), Num(5)>>

\* C18, the case: 0.5, 1.0 and 0.2 sum to 1.7 and come back as 0.29, 0.59, 0.12
C18_RescaledToHundredths ==
    /\ ReturnsKit /\ flow = "generate.v2"
    /\ RawWeights = <<Num(5000), Num(ONE), Num(2000)>>
    /\ ReturnedWeights = <<Num(2900), Num(5900), Num(1200)>>

\* the clamped weights sum to exactly 0 and the version takes the equal split
SplitsEqually ==
    /\ ReturnsKit /\ RubricFlow
    /\ Len(ClampedWeights) > 0
    /\ ClampedTotal = 0
    /\ (flow = "generate.v2" \/ ClampedAreNumbers)

\* C19 as stated: when the clamped weights of a non-empty rubric sum to
\* exactly 0, every criterion is returned with the weight 1.0 / count (to 3
\* decimals, the last taking the rest), the returned weights sum to 1.00, and
\* the weights [0, 0, 0] come back as [0.333, 0.333, 0.334].
C19_EqualSplitToThreeDecimals ==
    SplitsEqually =>
        LET n == Len(ReturnedWeights) IN
        /\ n = Len(ClampedWeights)
        /\ \A m \in 1..(n - 1) :
                /\ ReturnedWeights[m].v % 10 = 0
                /\ n * ReturnedWeights[m].v <= ONE
                /\ ONE < n * (ReturnedWeights[m].v + 10)
        /\ SumSeq([m \in 1..n |-> ReturnedWeights[m].v]) = ONE
        /\ n = 3 => ReturnedWeights = <<Num(3330), Num(3330), Num(3340)>>

\* C19, corrected: when the clamped weights of a non-empty rubric sum to
\* exactly 0, every criterion is assigned 1.0 / count and the rounding pass
\* follows: every criterion but the last is returned with 1.0 / count rounded
\* to 2 decimals and the last with max(0, 1.0 - the sum of the others).  The
\* weights [0, 0, 0] come back as [0.33, 0.33, 0.34].  The returned weights
\* sum to 1.00 for up to 17 criteria; for 18 the others take 0.06 each, the
\* last gets 0 and the sum is 1.02.
C19_EqualSplitToTwoDecimals ==
    SplitsEqually =>
        LET n == Len(ReturnedWeights)
            total == SumSeq([m \in 1..n |-> ReturnedWeights[m].v])
        IN
        /\ n = Len(ClampedWeights)
        /\ WeightsAreNumbers(ReturnedRubric)
        /\ \A m \in 1..(n - 1) : IsRoundedQuotient(ReturnedWeights[m].v, 1, n)
        /\ ReturnedWeights[n].v =
                Max(0, ONE - SumSeq([m \in 1..(n - 1) |-> ReturnedWeights[m].v]))
        /\ n = 3 => ReturnedWeights = <<Num(3300), Num(3300), Num(3400)>>
        /\ n <= 17 => total = ONE
        /\ n = 18 => total = 10200

\* C19, the case: three criteria of weight 0 come back as 0.33, 0.33, 0.34
C19_ThreeZeros ==
    /\ ReturnsKit /\ flow = "generate.v2"
    /\ RawWeights = <<Num(0), Num(0), Num(0)>>
    /\ ReturnedWeights = <<Num(3300), Num(3300), Num(3400)>>

\* C19, the case: eighteen criteria of weight 0 come back summing to 1.02
C19_EighteenZeros ==
    /\ ReturnsKit /\ flow = "customize"
    /\ Len(RawRubric) = 18
    /\ \A m \in 1..18 : RawWeights[m] = Num(0)
    /\ \A m \in 1..17 : ReturnedWeights[m] = Num(600)
    /\ ReturnedWeights[18] = Num(0)

\* C20: for a question whose category is missing, the returned category is
\* derived from the question's type, 'Technical' when the type is 'Technical'
\* and 'Non-Technical' otherwise, in every version of generateInterviewKit
\* and of customizeInterviewKit.
C20_CategoryDerivedFromType ==
    (ReturnsKit /\ RubricFlow) =>
        \A i \in 1..Len(RawCompetencies) :
            \A k \in 1..Len(QuestionsOf(RawCompetencies[i])) :
                LET q == QuestionsOf(RawCompetencies[i])[k] IN
                q.category = UNDEFINED =>
                    ReturnedCompetencies[i].questions[k].category =
                        IF q.type = "Technical" THEN "Technical" ELSE "Non-Technical"

\* C20, the case: the first version of generateInterviewKit returns a
\* question of type 'Technical' that had no category as 'Non-Technical'
C20_TechnicalReturnedNonTechnical ==
    /\ ReturnsKit /\ flow = "generate.v1"
    /\ output.competencies =
            Array(<<RawCompetency(CompId(1), "Delivery", "Medium",
                Array(<<RawQuestion(QuestionId(1, 1), "Describe the rollout.",
                                    "Canary. Rollback.", "Checks rigor.",
                                    "Technical", UNDEFINED, "Expert", Num(5))>>))>>)
    /\ ReturnedCompetencies[1].questions[1].type = "Technical"
    /\ ReturnedCompetencies[1].questions[1].category = "Non-Technical"

\* the placeholders a version may give a missing model answer
AnswerPlaceholders == {MissingModelAnswer, MissingAnswerGuidance}

\* the returned string is the raw one, or the default where the raw one is absent
ProvidedOrDefaultIfAbsent(returned, raw, defaults) ==
    IF raw = UNDEFINED THEN returned \in defaults ELSE returned = raw

\* the returned string is the raw one, or the default where the raw one is
\* absent or empty
ProvidedOrDefaultIfFalsy(returned, raw, defaults) ==
    IF raw = UNDEFINED \/ raw = "" THEN returned \in defaults ELSE returned = raw

\* C21 as stated: each competency and question field of the returned kit is
\* the value the model provided or the documented default, and the default is
\* used only when the field is absent; an empty string and the number 0 are
\* returned unchanged.
C21_DefaultOnlyWhenAbsent ==
    (ReturnsKit /\ RubricFlow) =>
        \A i \in 1..Len(RawCompetencies) :
            LET comp == RawCompetencies[i]
                out == ReturnedCompetencies[i]
            IN
            /\ ProvidedOrDefaultIfAbsent(out.name, comp.name, {"Unnamed Competency"})
            /\ ProvidedOrDefaultIfAbsent(out.importance, comp.importance, {"Medium"})
            /\ \A k \in 1..Len(QuestionsOf(comp)) :
                LET q == QuestionsOf(comp)[k]
                    r == out.questions[k]
                IN
                /\ ProvidedOrDefaultIfAbsent(r.question, q.question, {"Missing question text"})
                /\ ProvidedOrDefaultIfAbsent(r.modelAnswer, q.modelAnswer, AnswerPlaceholders)
                /\ ProvidedOrDefaultIfAbsent(r.type, q.type, {"Behavioral"})
                /\ ProvidedOrDefaultIfAbsent(r.difficulty, q.difficulty, {"Intermediate"})
                /\ q.estimatedTimeMinutes.t = "number" =>
                        r.estimatedTimeMinutes = q.estimatedTimeMinutes

\* C21, corrected: each competency and question field of the returned kit is
\* the value the model provided or the documented default, and the default is
\* used when the field is absent or empty: an empty string gives way to the
\* default like a missing field, and a time of 0 gives way to the time of the
\* question's difficulty.  Every other provided value is returned unchanged.
C21_DefaultWhenAbsentOrEmpty ==
    (ReturnsKit /\ RubricFlow) =>
        \A i \in 1..Len(RawCompetencies) :
            LET comp == RawCompetencies[i]
                out == ReturnedCompetencies[i]
            IN
            /\ ProvidedOrDefaultIfFalsy(out.name, comp.name, {"Unnamed Competency"})
            /\ ProvidedOrDefaultIfFalsy(out.importance, comp.importance, {"Medium"})
            /\ \A k \in 1..Len(QuestionsOf(comp)) :
                LET q == QuestionsOf(comp)[k]
                    r == out.questions[k]
                IN
                /\ ProvidedOrDefaultIfFalsy(r.question, q.question, {"Missing question text"})
                /\ ProvidedOrDefaultIfFalsy(r.modelAnswer, q.modelAnswer, AnswerPlaceholders)
                /\ ProvidedOrDefaultIfFalsy(r.type, q.type, {"Behavioral"})
                /\ ProvidedOrDefaultIfFalsy(r.difficulty, q.difficulty, {"Intermediate"})
                /\ r.estimatedTimeMinutes =
                        IF q.estimatedTimeMinutes.t = "number" /\ q.estimatedTimeMinutes.v # 0
                        THEN q.estimatedTimeMinutes
                        ELSE Num(TableMinutes(IF q.difficulty = "" THEN UNDEFINED
                                              ELSE q.difficulty))

\* C21, the case: a competency and a question whose strings are empty and
\* whose time is 0 come back with the defaults
C21_EmptyStringsDefaulted ==
    /\ ReturnsKit /\ flow = "generate.v2"
    /\ output.competencies = Array(<<EmptyStringCompetency>>)
    /\ result.kit.competencies[1].name = UnnamedCompetency
    /\ result.kit.competencies[1].importance = DefaultImportance
    /\ result.kit.competencies[1].questions[1].question = MissingQuestionText
    /\ result.kit.competencies[1].questions[1].type = DefaultType
    /\ result.kit.competencies[1].questions[1].estimatedTimeMinutes = Num(6)

\* C22: every question of a returned kit has an estimatedTimeMinutes that is
\* a positive integer, whatever the model returned in that field (nothing, 0,
\* a negative number) and whatever the difficulty.
C22_TimePositiveInteger ==
    (ReturnsKit /\ RubricFlow) =>
        \A i \in 1..Len(ReturnedCompetencies) :
            \A k \in 1..Len(ReturnedCompetencies[i].questions) :
                LET minutes == ReturnedCompetencies[i].questions[k].estimatedTimeMinutes IN
                minutes.t = "number" /\ minutes.v \in Nat \ {0}

\* C22, the case: a question the model gave -5 minutes comes back with -5
C22_NegativeTimeReturned ==
    /\ ReturnsKit /\ flow = "generate.v2"
    /\ output.competencies =
            Array(<<RawCompetency(CompId(1), "Delivery", "Medium",
                Array(<<RawQuestion(QuestionId(1, 1), "Describe the rollout.",
                                    "Canary. Rollback.", "Checks rigor.",
                                    "Scenario", "Non-Technical", "Beginner", Num(-5))>>))>>)
    /\ result.kit.competencies[1].questions[1].estimatedTimeMinutes = Num(-5)

\* what the version f returns for the output o when it is the first call
ResultOf(f, o) ==
    CASE f = "generate.v1" -> GenerateInterviewKitFlowV1(o).result
      [] f = "generate.v2" -> GenerateInterviewKitFlowV2(o, 0).result
      [] f = "generate.noid" -> GenerateInterviewKitFlowNoId(o).result
      [] f = "generate.uuid" -> GenerateInterviewKitFlowUuid(o, 0).result
      [] f = "customize" -> CustomizeInterviewKitFlow(o, TRUE, MissingModelAnswer).result
      [] f = "customize.part_009" -> CustomizeInterviewKitFlow(o, FALSE, MissingAnswerGuidance).result

\* the same output without its rubric: the normalizing step has nothing to do
WithoutRubric(o) == [o EXCEPT !.scoringRubric = NoArray]

\* the identifier the version leaves on the criterion at position m: the one
\* the model gave (customizeInterviewKit), none, or one of the last
\* identifiers the call drew
SanitizedCriterionId(m) ==
    CASE flow \in CustomizeFlows -> SummedCriteria[m].id
      [] flow \in {"generate.v1", "generate.noid"} -> UNDEFINED
      [] OTHER -> UUID(uuidCounter - Len(SummedCriteria) + m)

\* the normalizing step has changed a weight
WeightsChanged == ReturnedWeights # ClampedWeights

\* C23: the normalizing step changes only the weight field of the criteria.
\* The competencies and their questions are the ones the version returns when
\* there is no rubric to normalize, and the criteria are the sanitized ones in
\* their order, each with its id and its name.
C23_NormalizingChangesWeightsOnly ==
    (ReturnsKit /\ RubricFlow) =>
        /\ ReturnedCompetencies = ResultOf(flow, WithoutRubric(output)).kit.competencies
        /\ Len(ReturnedRubric) = Len(SummedCriteria)
        /\ \A m \in 1..Len(ReturnedRubric) :
            /\ DOMAIN ReturnedRubric[m] = {"id", "name", "weight"}
            /\ ReturnedRubric[m].id = SanitizedCriterionId(m)
            /\ ReturnedRubric[m].name =
                    IF SummedCriteria[m].name \in {UNDEFINED, ""} THEN UnnamedCriterion
                    ELSE SummedCriteria[m].name

\* C23, the case: two criteria of weight 1.0 beside a competency come back
\* with 0.5 each, their names and the identifiers drawn for them, and the
\* competency is as without a rubric
C23_RescaledBesideCompetency ==
    /\ ReturnsKit /\ flow = "generate.v2"
    /\ WeightsChanged
    /\ output.scoringRubric = Array(OverweightCriteria)
    /\ output.competencies =
            Array(<<RawCompetency(CompId(1), "System Design", "High",
                                  Array(<<FullQuestion(QuestionId(1, 1))>>))>>)
    /\ result.kit.scoringRubric =
            <<[id |-> UUID(3), name |-> "Code quality", weight |-> Num(5000)],
              [id |-> UUID(4), name |-> "Communication", weight |-> Num(5000)]>>
    /\ result.kit.competencies[1].id = UUID(1)
    /\ result.kit.competencies[1].questions[1].id = UUID(2)

\* the weights customizeInterviewKit returns when the model hands it back the
\* rubric of the returned kit: the clamp, the rescale and the rounding again
NormalizedAgain == WeightsOf(NormalizeRubric(RubricKeepingId(ReturnedRubric)))

\* C28: normalization is idempotent.  The clamp, rescale and rounding steps
\* applied to the rubric of a returned kit give the weights that rubric has.
C28_NormalizationIdempotent ==
    (ReturnsKit /\ RubricFlow) => NormalizedAgain = ReturnedWeights

\* C28, the case: 0.2, 0.2, 0.2, 1.0 and 0 come back as 0.13, 0.13, 0.13, 0.63
\* and 0, which sum to 1.02, and a second normalization makes the fourth 0.62
C28_SecondPassChangesWeight ==
    /\ ReturnsKit /\ flow = "generate.v2"
    /\ RawWeights = <<Num(2000), Num(2000), Num(2000), Num(ONE), Num(0)>>
    /\ ReturnedWeights = <<Num(1300), Num(1300), Num(1300), Num(6300), Num(0)>>
    /\ NormalizedAgain = <<Num(1300), Num(1300), Num(1300), Num(6200), Num(0)>>

\* the model returned an object without competencies and without
\* scoringRubric, or one without questions
LacksBothLists == output.t = "object" /\ output.competencies.t # "array"
                    /\ output.scoringRubric.t # "array"
LacksQuestions == output.t = "object" /\ output.questions.t # "array"

\* C29: a competency-based version of generateInterviewKit given an object
\* without competencies and without scoringRubric resolves with both lists
\* empty; a flat-question version given an object without questions rejects.
C29_EmptyKitOrRejection ==
    (Returned /\ flow \in GenerateFlows) =>
        /\ (flow # "generate.flat" /\ LacksBothLists) =>
                result = Resolved([competencies |-> <<>>, scoringRubric |-> <<>>])
        /\ (flow = "generate.flat" /\ LacksQuestions) =>
                result.status = "rejected"

\* C29, the case: a competency-based version has returned the empty kit for an
\* object without lists
C29_EmptyKitReturned ==
    /\ Returned /\ flow = "generate.noid"
    /\ LacksBothLists
    /\ result.status = "resolved"
    /\ result.kit.competencies = <<>>
    /\ result.kit.scoringRubric = <<>>

\* the version has rescaled the rubric: its clamped sum is not 0 and is
\* further than 0.001 from 1
Rescaled ==
    /\ ReturnsKit /\ RubricFlow
    /\ Len(ClampedWeights) > 0
    /\ (flow = "generate.v2" \/ ClampedAreNumbers)
    /\ ClampedTotal # 0
    /\ (1000 * ClampedTotal < 999 * ONE \/ 1000 * ClampedTotal > 1001 * ONE)

\* the distance of the returned weight at m from the exactly rescaled one,
\* multiplied by the clamped sum
SlackTimesTotal(m) ==
    Abs(ReturnedWeights[m].v * ClampedTotal
        - ONE * (IF ClampedWeights[m].t = "number" THEN ClampedWeights[m].v ELSE 0))

\* 0.005 in model units
HalfHundredth == ONE \div 200

\* C30: when a rubric of N criteria is rescaled and rounded, every weight but
\* the last is within 0.005 of its exactly rescaled weight and the last is
\* within 0.005 x N of its own; the last is what the others leave of 1.0 (0 if
\* they leave nothing), so their rounding slack is on the last one only.
C30_RoundingSlackOnLast ==
    Rescaled =>
        LET n == Len(ReturnedWeights) IN
        /\ n = Len(ClampedWeights)
        /\ \A m \in 1..(n - 1) : SlackTimesTotal(m) <= HalfHundredth * ClampedTotal
        /\ SlackTimesTotal(n) <= HalfHundredth * n * ClampedTotal
        /\ ReturnedWeights[n].v =
                Max(0, ONE - SumSeq([m \in 1..(n - 1) |-> ReturnedWeights[m].v]))

\* C30, the case: 0.2 and 0.5 are rescaled to 0.29 and 0.71, the exactly
\* rescaled weights being 0.2857 and 0.7143
C30_SlackOfFirstOnSecond ==
    /\ ReturnsKit /\ flow = "generate.uuid"
    /\ RawWeights = <<Num(2000), Num(5000)>>
    /\ ReturnedWeights = <<Num(2900), Num(7100)>>

-----------------------------------------------------------------------------
(* Properties of concurrent invocations *)

\* the outcome of a flow with the values of the generated identifiers left out
WithoutIds(res) ==
    IF res.status # "resolved" THEN res
    ELSE Resolved(
        [competencies |-> [i \in 1..Len(res.kit.competencies) |->
            [res.kit.competencies[i] EXCEPT
                !.id = UNDEFINED,
                !.questions = [k \in 1..Len(@) |-> [@[k] EXCEPT !.id = UNDEFINED]]]],
         scoringRubric |-> [m \in 1..Len(res.kit.scoringRubric) |->
            [res.kit.scoringRubric[m] EXCEPT !.id = UNDEFINED]]])

\* what the flow returns for an output when it runs alone, from a fresh module
Alone(o) == FlowOutcome(flow, o, 0).result

RequestDone(r) == requests[r].pc = "done"

\* C12: two generation requests whose executions interleave arbitrarily never
\* interact: the kit (or error) returned to each request is, apart from the
\* values of the generated identifiers, a function only of the raw output the
\* model returned for that request: it is what the flow returns for that
\* output when it runs alone.
C12_RequestsDoNotInteract ==
    \A r \in RequestIds :
        RequestDone(r) =>
            WithoutIds(requests[r].result) = WithoutIds(Alone(requests[r].output))

\* C12, the case: request 2 was answered and ran first, request 1 got a
\* different output and ran after it, with identifiers drawn in between
C12_InterleavedRequestsDone ==
    /\ RequestDone(1) /\ RequestDone(2)
    /\ requests[1].output = PageKit
    /\ requests[2].output # PageKit
    /\ requests[1].result.status = "resolved"
    /\ requests[2].result.status = "resolved"
    /\ requests[1].result.kit.competencies[1].id = UUID(5)
    /\ requests[1].result # Alone(PageKit)

\* C13: each generateInterviewKit invocation makes exactly one model call:
\* there is no retry, a model call that fails is never followed by a second
\* one for the same request, and its error is what the caller gets.
C13_OneModelCallNoRetry ==
    \A r \in RequestIds :
        /\ requests[r].modelCalls = (IF requests[r].pc = "idle" THEN 0 ELSE 1)
        /\ (RequestDone(r) /\ requests[r].output = ModelThrows) =>
            requests[r].result = Rejected(ModelCallError)

\* C13, the case: the model call of a request threw and the request is done
C13_FailedCallDelivered ==
    /\ RequestDone(1)
    /\ requests[1].output = ModelThrows
    /\ requests[1].modelCalls = 1
    /\ requests[1].result.status = "rejected"

\* C24: an accepted submit takes the page from idle to loading; loading ends
\* only where handleSubmit resumes after its await and ends, with the kit
\* displayed and no notification, or with the error notification and no kit,
\* one of the two, and isLoading false in both; nothing else ends loading.
\* Provided the awaited calls settle, loading does end.
C24_LoadingEndsDoneOrError ==
    /\ [][(~isLoading /\ isLoading') =>
            (Submitted /\ pc = "idle" /\ pc' \in {"reading", "awaiting"})]_vars
    /\ [][(isLoading /\ ~isLoading') =>
            /\ SubmitEnds
            /\ \/ interviewKit'.status = "kit" /\ toasts' = toasts
               \/ interviewKit' = NoInterviewKit /\ toasts' = Append(toasts, ErrorGeneratingKit)]_vars
    /\ [][SubmitEnds => (isLoading /\ ~isLoading')]_vars
    /\ (isLoading ~> ~isLoading)

\* C24, the case: the one submit made has ended with the kit displayed
C24_KitDisplayedAfterLoading ==
    /\ submits = 1 /\ calls = 1
    /\ pc = "idle" /\ ~isLoading
    /\ interviewKit.status = "kit"
    /\ toasts = <<>>
    /\ resumeFile # NoFile

\* the sum of the values a record holds under the keys of S
RECURSIVE SumOver(_, _)
SumOver(record, S) ==
    IF S = {} THEN 0
    ELSE LET key == CHOOSE k \in S : TRUE IN record[key] + SumOver(record, S \ {key})

\* C25: the overall score is the average over exactly the questions of the
\* displayed kit that have a score, their scores summed and divided by their
\* number; it is 0 when no question has a score, and it lies in [0, 10].
C25_AverageOfScoredQuestions ==
    LET average == calculateAverageScore IN
    /\ DOMAIN scores = {} => average = Ratio(0, 1)
    /\ DOMAIN scores # {} =>
        /\ interviewKit.status = "kit"
        /\ DOMAIN scores \subseteq QuestionIds(interviewKit.kit)
        /\ average = Ratio(SumOver(scores, DOMAIN scores), Cardinality(DOMAIN scores))
    /\ 0 <= average.num
    /\ average.num <= 10 * average.den

\* C25, the case: one of the two questions of the kit has the score 3, the
\* other has none, and the overall score is 3
C25_OneOfTwoScored ==
    /\ interviewKit.status = "kit"
    /\ Len(AllQuestions(interviewKit.kit)) = 2
    /\ Cardinality(DOMAIN scores) = 1
    /\ calculateAverageScore = Ratio(3, 1)

\* C26: while isLoading is true no kit is displayed.  The kit is cleared in
\* the step that starts loading; while loading no score and no note is
\* recorded, and a kit is set only in the step that ends loading.
C26_NoKitWhileLoading ==
    /\ [](isLoading => interviewKit = NoInterviewKit)
    /\ [][(~isLoading /\ isLoading') => interviewKit' = NoInterviewKit]_vars
    /\ [][isLoading =>
            /\ scores' = scores /\ notes' = notes
            /\ interviewKit' # interviewKit => ~isLoading']_vars

\* C26, the case: a second request is loading after a first one gave a kit,
\* and no kit is displayed
C26_LoadingAfterKit ==
    /\ isLoading /\ pc = "responded"
    /\ submits = 2 /\ calls = 2
    /\ uuidCounter = 5
    /\ interviewKit = NoInterviewKit
    /\ output = PageKit

\* the ids of the questions of the kit on display, none when there is no kit
DisplayedQuestionIds ==
    IF interviewKit.status = "kit" THEN QuestionIds(interviewKit.kit) ELSE {}

\* C27: every key of scores and of notes is the id of a question of the kit
\* on display.  Whenever the kit on display changes, by an accepted submit, a
\* restart or the arrival of a new kit, scores and notes are empty afterwards,
\* so nothing recorded for one kit is there beside a later one.
C27_ScoresBelongToDisplayedKit ==
    /\ [](DOMAIN scores \subseteq DisplayedQuestionIds)
    /\ [](DOMAIN notes \subseteq DisplayedQuestionIds)
    /\ [][interviewKit' # interviewKit => (scores' = EmptyRecord /\ notes' = EmptyRecord)]_vars
    /\ [][(~isLoading /\ isLoading') => (scores' = EmptyRecord /\ notes' = EmptyRecord)]_vars

\* C27, the case: the second kit is on display, and the only score and the
\* only note are those of its first question
C27_ScoreOfSecondKit ==
    /\ calls = 2 /\ uuidCounter = 10
    /\ interviewKit.status = "kit"
    /\ interviewKit.kit.competencies[1].questions[1].id = UUID(7)
    /\ DOMAIN scores = {UUID(7)}
    /\ DOMAIN notes = {UUID(7)}

====
